---- MODULE Spec2Model ----
(***************************************************************************)
(* A model of the RakNet transport of imkalcor/Network: the receive        *)
(* windows (src/generic/window.rs), the per-connection reliability engine  *)
(* RakStream (src/net/stream.rs), the listener RakSocket                   *)
(* (src/net/socket.rs) and the periodic systems (src/net/mod.rs).          *)
(*                                                                         *)
(* Byte strings are symbolic: a byte string is a sequence of segments      *)
(* [m, lo, hi], the bytes lo..hi-1 of the serialization of message m.      *)
(* Adjacent segments of the same message are merged, so two byte strings   *)
(* are equal exactly when they hold the same bytes in the same order.      *)
(***************************************************************************)
EXTENDS Integers, Sequences, FiniteSets, TLC

\* ------------------------------------------------------------------------
\* Program constants (src/protocol/mod.rs)
\* ------------------------------------------------------------------------
PROTOCOL_VERSION == 11
MAX_MTU_SIZE == 1500
MAX_SPLIT_PACKETS == 250
MAX_BATCHED_PACKETS == 100
UDP_HEADER_SIZE == 28
DATAGRAM_HEADER_SIZE == 4
FRAME_HEADER_SIZE == 10
FRAME_ADDITIONAL_SIZE == 10
WINDOW_SIZE == 2048
MAX_MSGS_PER_SEC == 100
MAX_INVALID_MSGS == 20
RAKNET_BLOCK_DUR == 10
RAKNET_TIMEOUT == 100

\* ------------------------------------------------------------------------
\* Bounds of the model
\* ------------------------------------------------------------------------
\* sequence numbers 0..MaxSeq are offered to a window, besides the boundary
\* values of the initial window
MaxSeq == 3
\* message indexes 0..MaxIndex are offered to a message window
MaxIndex == 3
\* number of ack-flush ticks in the window specifications
MaxShifts == 2
\* number of receive calls on the sequence window on its own
MaxSwCalls == 3
\* number of receive calls on the message window on its own
MaxMwCalls == 5
\* number of operations on the stream of a connection
MaxSteps == 3
\* data datagrams offered to a stream carry sequence numbers 0..MaxInSeq
MaxInSeq == 2

\* SpecLink: ack-flushes at the receiver
MaxLinkTicks == 1

\* SpecTimer: GamePackets the host sends, ack-flushes
MaxTimerEncodes == 3

MaxTimerShifts == 2

\* SpecListener: datagrams read, connections ended and moves of the clock
MaxListenerSteps == 3

\* SpecSweep: runs of the systems and moves of the clock
MaxSweepSteps == 4

\* SpecSplit: operations on the stream
MaxSplitSteps == 2

\* SpecRtt: calls made on the RecoveryWindow, and the last clock reading (ms)
MaxRttCalls == 4

MaxRttClock == 6000

\* SpecSplitWindow: fragments of the split, and receive calls on its window
MaxSplitCount == 5

MaxSpwCalls == 5

\* SpecGate: datagrams with a fragmented frame decoded by the stream
MaxGateSteps == 3

\* SpecBatch: the number of datagrams decoded
MaxBatchSteps == 3

\* SpecProbe: the number of OpenConnectionRequest1 the server reads
MaxProbeSteps == 2

\* SpecReceipts: the number of encodes and receipts on the stream
MaxReceiptSteps == 5

\* SpecTrip: the highest sequence number received, and the number of
\* datagrams and ack-flushes at the receiving end
MaxTripSeq == 3

MaxTripSteps == 4

\* ------------------------------------------------------------------------
\* Generic helpers
\* ------------------------------------------------------------------------
Max(a, b) == IF a > b THEN a ELSE b

Min(a, b) == IF a < b THEN a ELSE b

Range(s) == {s[i] : i \in DOMAIN s}

Contains(s, x) == \E i \in DOMAIN s : s[i] = x

\* Vec::retain(|&x| x != v)
RetainNot(s, v) == SelectSeq(s, LAMBDA x : x # v)

\* the integers lo..hi-1 in ascending order, as a sequence
RangeSeq(lo, hi) == [i \in 1..Max(hi - lo, 0) |-> lo + i - 1]

NoDuplicates(s) == \A i, j \in DOMAIN s : i # j => s[i] # s[j]

\* ------------------------------------------------------------------------
\* SequenceWindow (src/generic/window.rs)
\* ------------------------------------------------------------------------
SequenceWindowNew ==
    [start |-> 0, end |-> WINDOW_SIZE, highest |-> 0, acks |-> <<>>, nacks |-> <<>>]

\* the loop `for i in self.start..self.end`: the range is fixed when the
\* loop starts; the number of consecutive members of s from start on
RECURSIVE AdvanceRun(_, _, _)
AdvanceRun(s, i, end) ==
    IF i < end /\ Contains(s, i) THEN 1 + AdvanceRun(s, i + 1, end) ELSE 0

\* a receive that leaves a filled gap among the nacks
SequenceWindowReceiveKeepsNacks(w, seq) ==
    IF seq < w.start \/ seq > w.end \/ Contains(w.acks, seq)
    THEN [w |-> w, ok |-> FALSE]
    ELSE LET nacks1 == w.nacks
             acks1 == Append(w.acks, seq)
             highest1 == IF seq > w.highest THEN seq ELSE w.highest
             run == AdvanceRun(acks1, w.start, w.end)
         IN IF seq = w.start
            THEN [w |-> [start |-> w.start + run, end |-> w.end + run,
                         highest |-> highest1, acks |-> acks1, nacks |-> nacks1],
                  ok |-> TRUE]
            ELSE [w |-> [start |-> w.start, end |-> w.end,
                         highest |-> highest1, acks |-> acks1,
                         nacks |-> nacks1 \o SelectSeq(RangeSeq(w.start, seq),
                                                       LAMBDA i : ~Contains(acks1, i))],
                  ok |-> TRUE]

\* a receive that does not look for the sequence number among the acks
SequenceWindowReceiveIgnoresAcks(w, seq) ==
    IF seq < w.start \/ seq > w.end
    THEN [w |-> w, ok |-> FALSE]
    ELSE LET nacks1 == RetainNot(w.nacks, seq)
             acks1 == Append(w.acks, seq)
             highest1 == IF seq > w.highest THEN seq ELSE w.highest
             run == AdvanceRun(acks1, w.start, w.end)
         IN IF seq = w.start
            THEN [w |-> [start |-> w.start + run, end |-> w.end + run,
                         highest |-> highest1, acks |-> acks1, nacks |-> nacks1],
                  ok |-> TRUE]
            ELSE [w |-> [start |-> w.start, end |-> w.end,
                         highest |-> highest1, acks |-> acks1,
                         nacks |-> nacks1 \o SelectSeq(RangeSeq(w.start, seq),
                                                       LAMBDA i : ~Contains(acks1, i))],
                  ok |-> TRUE]

SequenceWindowReceive(w, seq) ==
    IF seq < w.start \/ seq > w.end \/ Contains(w.acks, seq)
    THEN [w |-> w, ok |-> FALSE]
    ELSE LET nacks1 == RetainNot(w.nacks, seq)
             acks1 == Append(w.acks, seq)
             highest1 == IF seq > w.highest THEN seq ELSE w.highest
             run == AdvanceRun(acks1, w.start, w.end)
         IN IF seq = w.start
            THEN [w |-> [start |-> w.start + run, end |-> w.end + run,
                         highest |-> highest1, acks |-> acks1, nacks |-> nacks1],
                  ok |-> TRUE]
            ELSE [w |-> [start |-> w.start, end |-> w.end,
                         highest |-> highest1, acks |-> acks1,
                         nacks |-> nacks1 \o SelectSeq(RangeSeq(w.start, seq),
                                                       LAMBDA i : ~Contains(acks1, i))],
                  ok |-> TRUE]

SequenceWindowShift(w) ==
    [w EXCEPT !.start = w.start + w.highest + 1, !.end = w.end + w.highest + 1]

\* ------------------------------------------------------------------------
\* MessageWindow (src/generic/window.rs)
\* ------------------------------------------------------------------------
MessageWindowNew == [start |-> 0, end |-> WINDOW_SIZE, indexes |-> <<>>]

\* the loop of MessageWindow::receive: every index of the advance-run is
\* removed from the stored indexes
RECURSIVE RetainNotRun(_, _, _)
RetainNotRun(s, i, n) ==
    IF n = 0 THEN s ELSE RetainNotRun(RetainNot(s, i), i + 1, n - 1)

\* a receive that forgets the indexes it stored
MessageWindowReceiveForgetsStored(w, index) ==
    IF index < w.start \/ index > w.end
    THEN [w |-> w, ok |-> FALSE]
    ELSE LET indexes1 == Append(w.indexes, index)
             run == AdvanceRun(indexes1, w.start, w.end)
         IN IF index = w.start
            THEN [w |-> [start |-> w.start + run, end |-> w.end + run,
                         indexes |-> RetainNotRun(indexes1, w.start, run)],
                  ok |-> TRUE]
            ELSE [w |-> [w EXCEPT !.indexes = indexes1], ok |-> TRUE]

\* a receive that forgets the indexes the window slid past
MessageWindowReceiveForgetsPast(w, index) ==
    IF index > w.end \/ Contains(w.indexes, index)
    THEN [w |-> w, ok |-> FALSE]
    ELSE LET indexes1 == Append(w.indexes, index)
             run == AdvanceRun(indexes1, w.start, w.end)
         IN IF index = w.start
            THEN [w |-> [start |-> w.start + run, end |-> w.end + run,
                         indexes |-> RetainNotRun(indexes1, w.start, run)],
                  ok |-> TRUE]
            ELSE [w |-> [w EXCEPT !.indexes = indexes1], ok |-> TRUE]

MessageWindowReceive(w, index) ==
    IF index < w.start \/ index > w.end \/ Contains(w.indexes, index)
    THEN [w |-> w, ok |-> FALSE]
    ELSE LET indexes1 == Append(w.indexes, index)
             run == AdvanceRun(indexes1, w.start, w.end)
         IN IF index = w.start
            THEN [w |-> [start |-> w.start + run, end |-> w.end + run,
                         indexes |-> RetainNotRun(indexes1, w.start, run)],
                  ok |-> TRUE]
            ELSE [w |-> [w EXCEPT !.indexes = indexes1], ok |-> TRUE]

\* ------------------------------------------------------------------------
\* Symbolic byte strings
\* ------------------------------------------------------------------------
\* fixed serialized sizes of the control messages (src/protocol/message.rs):
\* one id byte plus the fields; an IPv4 UDPAddress takes 7 bytes and
\* SystemAddresses 20 of them
FixedLen(id) ==
    CASE id = "ConnectedPing" -> 9
      [] id = "ConnectedPong" -> 17
      [] id = "ConnectionRequest" -> 18
      [] id = "ConnectionRequestAccepted" -> 166
      [] id = "NewIncomingConnection" -> 164
      [] id = "IncompatibleProtocolVersion" -> 26
      [] id = "DetectLostConnections" -> 1
      [] id = "DisconnectNotification" -> 1
      [] OTHER -> 1

\* a GamePacket carries payload p of len opaque bytes after its id byte
GamePacket(p, len) == [id |-> "GamePacket", p |-> p, len |-> len, ts |-> 0]

Control(id, ts) == [id |-> id, p |-> 0, len |-> 0, ts |-> ts]

SerializedLen(m) == IF m.id = "GamePacket" THEN 1 + m.len ELSE FixedLen(m.id)

\* Message::serialize
Serialize(m) == <<[m |-> m, lo |-> 0, hi |-> SerializedLen(m)]>>

\* &bytes[start..end] of a serialized message
Slice(m, start, end) == IF start < end THEN <<[m |-> m, lo |-> start, hi |-> end]>> ELSE <<>>

RECURSIVE BLen(_)
BLen(b) == IF b = <<>> THEN 0 ELSE (b[1].hi - b[1].lo) + BLen(Tail(b))

\* extend_from_slice: concatenation, merging adjacent segments
Concat(a, b) ==
    IF a = <<>> THEN b
    ELSE IF b = <<>> THEN a
    ELSE LET la == a[Len(a)]
             fb == b[1]
         IN IF la.m = fb.m /\ la.hi = fb.lo
            THEN SubSeq(a, 1, Len(a) - 1) \o <<[m |-> la.m, lo |-> la.lo, hi |-> fb.hi]>> \o Tail(b)
            ELSE a \o b

\* the bytes after the first one
DropFirstByte(b) ==
    IF b[1].hi - b[1].lo = 1 THEN Tail(b)
    ELSE <<[b[1] EXCEPT !.lo = b[1].lo + 1]>> \o Tail(b)

\* Message::deserialize. The id byte is the first byte of a serialized
\* message; the bytes inside a message body are opaque and are not message
\* ids, so a buffer that starts inside a body is an unknown message id. A
\* control message needs all its fixed fields; a GamePacket takes the rest
\* of the buffer as its data.
Deserialize(b) ==
    IF b = <<>> THEN [ok |-> FALSE, id |-> "None", ts |-> 0, data |-> <<>>]
    ELSE IF b[1].lo # 0 THEN [ok |-> FALSE, id |-> "None", ts |-> 0, data |-> <<>>]
    ELSE IF b[1].m.id = "GamePacket"
         THEN [ok |-> TRUE, id |-> "GamePacket", ts |-> 0, data |-> DropFirstByte(b)]
    ELSE IF b[1].hi >= FixedLen(b[1].m.id)
         THEN [ok |-> TRUE, id |-> b[1].m.id, ts |-> b[1].m.ts, data |-> <<>>]
    ELSE [ok |-> FALSE, id |-> "None", ts |-> 0, data |-> <<>>]

\* ------------------------------------------------------------------------
\* Reliability (src/protocol/reliability.rs)
\* ------------------------------------------------------------------------
Reliabilities ==
    {"Unreliable", "UnreliableSequenced", "Reliable", "ReliableOrdered", "ReliableSequenced"}

reliable(r) == r \in {"Reliable", "ReliableOrdered", "ReliableSequenced"}

sequenced_or_ordered(r) == r \in {"ReliableSequenced", "UnreliableSequenced", "ReliableOrdered"}

sequenced(r) == r \in {"ReliableSequenced", "UnreliableSequenced"}

\* ------------------------------------------------------------------------
\* Frames and datagrams (wire format written by RakStream::encode and
\* RakStream::flush, read by RakStream::decode_datagram)
\* ------------------------------------------------------------------------
Frame(rel, midx, sidx, oidx, split, scount, sid, sindex, content) ==
    [rel |-> rel, midx |-> midx, sidx |-> sidx, oidx |-> oidx, split |-> split,
     scount |-> scount, sid |-> sid, sindex |-> sindex, content |-> content]

\* bytes a frame takes in a datagram
FrameSize(f) ==
    3 + (IF reliable(f.rel) THEN 3 ELSE 0) + (IF sequenced(f.rel) THEN 3 ELSE 0)
      + (IF sequenced_or_ordered(f.rel) THEN 4 ELSE 0) + (IF f.split THEN 10 ELSE 0)
      + BLen(f.content)

RECURSIVE FramesSize(_)
FramesSize(fs) == IF fs = <<>> THEN 0 ELSE FrameSize(fs[1]) + FramesSize(Tail(fs))

Datagram(seq, frames, via) == [kind |-> "data", seq |-> seq, frames |-> frames, via |-> via]

\* ------------------------------------------------------------------------
\* Maps (HashMap) as functions with a finite domain
\* ------------------------------------------------------------------------
EmptyMap == [k \in {} |-> 0]

MapPut(f, k, v) == [x \in DOMAIN f \cup {k} |-> IF x = k THEN v ELSE f[x]]

MapRemove(f, k) == [x \in DOMAIN f \ {k} |-> f[x]]

\* ------------------------------------------------------------------------
\* SplitWindow (src/generic/window.rs)
\* ------------------------------------------------------------------------
\* Vec::with_capacity(count) allocates exactly count slots for these elements
SplitWindowNew(count) == [count |-> count, cap |-> count, fragments |-> <<>>]

\* Vec::remove(i), i counted from 0
RemoveAt(s, i) == SubSeq(s, 1, i) \o SubSeq(s, i + 2, Len(s))

\* Vec::insert(i, x), i counted from 0 and i <= len
InsertAt(s, i, x) == SubSeq(s, 1, i) \o <<x>> \o SubSeq(s, i + 1, Len(s))

\* the loop `for i in 1..self.fragments.len()` of SplitWindow::receive: the
\* range is fixed when the loop starts, every turn removes element i of the
\* vector as it is then; Vec::remove panics when i is out of bounds
RECURSIVE JoinFragments(_, _, _, _)
JoinFragments(buffer, rest, i, n) ==
    IF i >= n THEN [status |-> "some", bytes |-> buffer]
    ELSE IF i >= Len(rest) THEN [status |-> "panic", bytes |-> <<>>]
    ELSE JoinFragments(Concat(buffer, rest[i + 1]), RemoveAt(rest, i), i + 1, n)

\* SplitWindow::receive: status is "none", "some" (with the bytes) or
\* "panic" (Vec::insert or Vec::remove out of bounds)
SplitWindowReceive(w, index, fragment) ==
    IF index > Len(w.fragments)
    THEN [w |-> w, status |-> "panic", bytes |-> <<>>]
    ELSE LET frs == InsertAt(w.fragments, index, fragment)
             \* a full vector grows to max(2 * cap, 4) slots on insert
             cap1 == IF Len(w.fragments) = w.cap THEN Max(2 * w.cap, 4) ELSE w.cap
             w1 == [w EXCEPT !.fragments = frs, !.cap = cap1]
         IN IF cap1 # Len(frs)
            THEN [w |-> w1, status |-> "none", bytes |-> <<>>]
            ELSE LET j == JoinFragments(frs[1], Tail(frs), 1, Len(frs) - 1)
                 IN [w |-> w1, status |-> j.status, bytes |-> j.bytes]

\* ------------------------------------------------------------------------
\* RecoveryWindow (src/generic/window.rs)
\* ------------------------------------------------------------------------
RecoveryWindowNew == [unacknowledged |-> EmptyMap]

RecoveryWindowAdd(rw, sequence, packet) ==
    [rw EXCEPT !.unacknowledged = MapPut(rw.unacknowledged, sequence, packet)]

RecoveryWindowAcknowledge(rw, sequence) ==
    [rw EXCEPT !.unacknowledged = MapRemove(rw.unacknowledged, sequence)]

\* found tells whether the sequence had a record; packet is its bytes
RecoveryWindowRetransmit(rw, sequence) ==
    IF sequence \in DOMAIN rw.unacknowledged
    THEN [rw |-> [rw EXCEPT !.unacknowledged = MapRemove(rw.unacknowledged, sequence)],
          found |-> TRUE, packet |-> rw.unacknowledged[sequence]]
    ELSE [rw |-> rw, found |-> FALSE, packet |-> <<>>]

\* ------------------------------------------------------------------------
\* RakStream (src/net/stream.rs)
\* ------------------------------------------------------------------------
\* stands for 2^64 in wrapped usize arithmetic: every length it is compared
\* with or divided into is far below it
USIZE_WRAP == 1073741824

\* checked tells whether the build has overflow checks (a debug build panics
\* on usize underflow, a release build wraps). sent, events and handled
\* record what the stream did: the datagrams given to the socket, the events
\* written, and the frames that passed the message window.
RakStreamNew(mtu_size, checked) ==
    [mtu_size |-> mtu_size, checked |-> checked,
     sequence_number |-> 0, message_index |-> 0, sequence_index |-> 0,
     order_index |-> 0, split_id |-> 0,
     sequence_window |-> SequenceWindowNew,
     message_window |-> MessageWindowNew,
     split_window |-> EmptyMap,
     recovery_window |-> RecoveryWindowNew,
     receipts |-> <<>>,
     buffer |-> <<>>, capacity |-> MAX_MTU_SIZE,
     sent |-> <<>>, events |-> <<>>, handled |-> <<>>,
     panicked |-> FALSE]

Event(type, data) == [type |-> type, data |-> data]

\* RakStream::flush: the datagram leaves under the current sequence number
flush(st, frames, via) ==
    [st EXCEPT !.sent = Append(st.sent, Datagram(st.sequence_number, frames, via))]

\* a flush block inside encode that takes no new sequence number
FlushInEncodeKeepsSequence(st) ==
    LET st1 == flush(st, st.buffer, "encode")
    IN [st1 EXCEPT !.recovery_window =
                       RecoveryWindowAdd(st.recovery_window, st.sequence_number, st.buffer),
                   !.buffer = <<>>]

\* the flush block inside encode (lines 131-135 and 170-174): flush, add to
\* the recovery window, next sequence number, clear the buffer
FlushInEncode(st) ==
    LET st1 == flush(st, st.buffer, "encode")
    IN [st1 EXCEPT !.recovery_window =
                       RecoveryWindowAdd(st.recovery_window, st.sequence_number, st.buffer),
                   !.sequence_number = st.sequence_number + 1,
                   !.buffer = <<>>]

\* a try_flush that sends the buffer without taking a new sequence number
try_flushKeepsSequence(st) ==
    IF st.buffer = <<>> THEN st
    ELSE LET st1 == flush(st, st.buffer, "try_flush")
         IN [st1 EXCEPT !.buffer = <<>>]

\* RakStream::try_flush
try_flush(st) ==
    IF st.buffer = <<>> THEN st
    ELSE LET st1 == flush(st, st.buffer, "try_flush")
         IN [st1 EXCEPT !.sequence_number = st.sequence_number + 1,
                        !.buffer = <<>>]

\* RakStream::split: the fragment size and count for a message of len bytes;
\* panic on usize underflow in a checked build and on division by zero
\* split that keeps the size of an unfragmented frame for the fragments
splitKeepsSize(st, len) ==
    LET max_size == st.mtu_size - UDP_HEADER_SIZE - DATAGRAM_HEADER_SIZE - FRAME_HEADER_SIZE
    IN IF max_size <= 0
       THEN [panic |-> TRUE, max_size |-> 0, count |-> 0]
       ELSE [panic |-> FALSE, max_size |-> max_size,
             count |-> (len \div max_size) + (IF len % max_size # 0 THEN 1 ELSE 0)]

\* RakStream::split: the size of a fragment and their number
split(st, len) ==
    LET m0 == st.mtu_size - UDP_HEADER_SIZE - DATAGRAM_HEADER_SIZE - FRAME_HEADER_SIZE
        under0 == m0 < 0
        max0 == IF under0 THEN USIZE_WRAP + m0 ELSE m0
        m1 == IF len > max0 THEN max0 - FRAME_ADDITIONAL_SIZE ELSE max0
        under1 == m1 < 0
        max_size == IF under1 THEN USIZE_WRAP + m1 ELSE m1
    IN IF (st.checked /\ (under0 \/ under1)) \/ max_size = 0
       THEN [panic |-> TRUE, max_size |-> 0, count |-> 0]
       ELSE [panic |-> FALSE, max_size |-> max_size,
             count |-> (len \div max_size) + (IF len % max_size # 0 THEN 1 ELSE 0)]

\* one turn of the loop of encode for fragment split_index
EncodeFragment(st, m, reliability, order_index, split_id, sp, split_index) ==
    LET len == SerializedLen(m)
        start == split_index * sp.max_size
        content == Slice(m, start, Min(start + sp.max_size, len))
        isSplit == sp.count > 1
        room == st.capacity - FramesSize(st.buffer) - FRAME_HEADER_SIZE
        \* a wrapped max_len is larger than any content
        overflow == room >= 0 /\ BLen(content) > room
        st1 == IF overflow THEN FlushInEncode(st) ELSE st
        f == Frame(reliability,
                   IF reliable(reliability) THEN st1.message_index ELSE 0,
                   IF sequenced(reliability) THEN st1.sequence_index ELSE 0,
                   IF sequenced_or_ordered(reliability) THEN order_index ELSE 0,
                   isSplit,
                   IF isSplit THEN sp.count ELSE 0,
                   IF isSplit THEN split_id ELSE 0,
                   IF isSplit THEN split_index ELSE 0,
                   content)
        buffer1 == Append(st1.buffer, f)
        st2 == [st1 EXCEPT
                  !.message_index = IF reliable(reliability) THEN @ + 1 ELSE @,
                  !.sequence_index = IF sequenced(reliability) THEN @ + 1 ELSE @,
                  !.buffer = buffer1,
                  \* BytesMut grows when a write passes its capacity
                  !.capacity = IF FramesSize(buffer1) > @
                               THEN Max(2 * @, FramesSize(buffer1)) ELSE @]
    IN IF room < 0 /\ st.checked THEN [st EXCEPT !.panicked = TRUE]
       ELSE IF reliability # "ReliableOrdered" THEN FlushInEncode(st2)
       ELSE st2

RECURSIVE EncodeLoop(_, _, _, _, _, _, _)
EncodeLoop(st, m, reliability, order_index, split_id, sp, split_index) ==
    IF split_index >= sp.count \/ st.panicked THEN st
    ELSE EncodeLoop(EncodeFragment(st, m, reliability, order_index, split_id, sp, split_index),
                    m, reliability, order_index, split_id, sp, split_index + 1)

\* an encode that allocates no new split id for a split message
encodeKeepsSplitId(st, message, reliability) ==
    LET sp == split(st, SerializedLen(message))
        st1 == [st EXCEPT !.order_index = @ + 1]
    IN IF sp.panic THEN [st EXCEPT !.panicked = TRUE]
       ELSE EncodeLoop(st1, message, reliability, st.order_index, st.split_id, sp, 0)

\* RakStream::encode
encode(st, message, reliability) ==
    LET sp == split(st, SerializedLen(message))
        st1 == [st EXCEPT !.order_index = @ + 1,
                          !.split_id = IF sp.count > 1 THEN @ + 1 ELSE @]
    IN IF sp.panic THEN [st EXCEPT !.panicked = TRUE]
       ELSE EncodeLoop(st1, message, reliability, st.order_index, st.split_id, sp, 0)

\* RakStream::disconnect
disconnect(st) ==
    LET st1 == encode(st, Control("DisconnectNotification", 0), "ReliableOrdered")
    IN IF st1.panicked THEN st1 ELSE try_flush(st1)

\* the message an arm of handle_message answers with, if it answers
Reply(d) ==
    CASE d.id = "ConnectedPing" -> Control("ConnectedPong", d.ts)
      [] d.id = "ConnectionRequest" -> Control("ConnectionRequestAccepted", d.ts)
      [] d.id = "ConnectionRequestAccepted" -> Control("NewIncomingConnection", d.ts)
      [] d.id = "DetectLostConnections" -> Control("ConnectedPing", 0)
      [] OTHER -> Control("none", 0)

\* the event an arm of handle_message writes, if it writes one
EventOf(d) ==
    CASE d.id = "ConnectedPong" -> Event("Ping", <<>>)
      [] d.id = "ConnectionRequestAccepted" -> Event("ConnectionEstablished", <<>>)
      [] d.id = "NewIncomingConnection" -> Event("ConnectionEstablished", <<>>)
      [] d.id = "GamePacket" -> Event("IncomingBatch", d.data)
      [] d.id = "DisconnectNotification" -> Event("Disconnect", <<>>)
      [] d.id = "IncompatibleProtocolVersion" -> Event("IncompatibleProtocol", <<>>)
      [] OTHER -> Event("none", <<>>)

WriteEvent(st, event) ==
    IF event.type = "none" THEN st ELSE [st EXCEPT !.events = Append(st.events, event)]

\* the match of handle_message on the deserialized message d
HandleDeserialized(st, d) ==
    IF ~d.ok THEN [st |-> st, ok |-> FALSE]
    ELSE [st |-> WriteEvent(IF Reply(d).id = "none" THEN st
                            ELSE encode(st, Reply(d), "Unreliable"),
                            EventOf(d)),
          ok |-> TRUE]

\* RakStream::handle_message: the stream after the message and whether the
\* result is Ok
handle_message(st, buffer) == HandleDeserialized(st, Deserialize(buffer))

\* the end of a turn of the loop of decode_datagram after handle_message
\* gave h: the error is returned, or the turn ends as next says
Handled(h, next) == [st |-> h.st, next |-> IF h.ok THEN next ELSE "err"]

\* a fragment went into its SplitWindow with result r; st2 is the stream
\* with the window taken out of the map
SplitReceived(st2, f, r) ==
    IF r.status = "panic" THEN [st |-> [st2 EXCEPT !.panicked = TRUE], next |-> "err"]
    ELSE IF r.status = "some" THEN Handled(handle_message(st2, r.bytes), "continue")
    ELSE [st |-> [st2 EXCEPT !.split_window = MapPut(st2.split_window, f.sid, r.w)],
          next |-> "count"]

\* the split arm of the loop of decode_datagram
DecodeSplit(st1, f) ==
    LET splits == IF f.sid \in DOMAIN st1.split_window
                  THEN st1.split_window[f.sid] ELSE SplitWindowNew(f.scount)
        st2 == [st1 EXCEPT !.split_window = MapRemove(st1.split_window, f.sid)]
    IN IF f.scount >= MAX_SPLIT_PACKETS THEN [st |-> st1, next |-> "err"]
       ELSE IF splits.count # f.scount THEN [st |-> st2, next |-> "err"]
       ELSE SplitReceived(st2, f, SplitWindowReceive(splits, f.sindex, f.content))

\* a frame that passed the message window: st1 is the stream after it
DecodeAccepted(st1, f) ==
    IF f.split THEN DecodeSplit(st1, f)
    ELSE Handled(handle_message(st1, f.content), "count")

\* one turn of the loop of decode_datagram for frame f; next is "count"
\* (the frame was counted), "continue" (the turn ended at a continue) or
\* "err" (decode_datagram returns the error)
DecodeFrame(st, f) ==
    LET message_index == IF reliable(f.rel) THEN f.midx ELSE 0
        g == MessageWindowReceive(st.message_window, message_index)
    IN IF f.rel \notin Reliabilities THEN [st |-> st, next |-> "err"]
       ELSE IF BLen(f.content) = 0 THEN [st |-> st, next |-> "err"]
       ELSE IF ~g.ok THEN [st |-> [st EXCEPT !.message_window = g.w], next |-> "continue"]
       ELSE DecodeAccepted([st EXCEPT !.message_window = g.w,
                                      !.handled = Append(st.handled, f)], f)

\* the loop of decode_datagram over the frames of a datagram. The state of
\* the loop is a = [st, count, ok]: the stream, the frames counted so far and
\* whether the loop goes on.
\* one turn for frame f: the error ends the loop, a counted frame above
\* MAX_BATCHED_PACKETS too
DecodeNext(a, f) ==
    LET r == DecodeFrame(a.st, f)
        count == IF r.next = "count" THEN a.count + 1 ELSE a.count
    IN [st |-> r.st, count |-> count,
        ok |-> ~(r.next = "err" \/ r.st.panicked) /\ count <= MAX_BATCHED_PACKETS]

\* the turns for frames[lo..hi] in order, the first half before the second
\* one, so that the evaluation nests no deeper than the logarithm of the
\* number of frames
RECURSIVE DecodeRange(_, _, _, _)
DecodeRange(a, frames, lo, hi) ==
    LET half == DecodeRange(a, frames, lo, (lo + hi) \div 2)
    IN IF lo > hi THEN a
       ELSE IF lo = hi THEN DecodeNext(a, frames[lo])
       ELSE IF ~half.ok THEN half
       ELSE DecodeRange(half, frames, (lo + hi) \div 2 + 1, hi)

DecodeFrames(st, frames, count) ==
    LET a == DecodeRange([st |-> st, count |-> count, ok |-> TRUE], frames, 1, Len(frames))
    IN [st |-> a.st, ok |-> a.ok]

\* a decode_datagram that goes on to the frames of a rejected datagram
decode_datagramIgnoresGate(st, dg) ==
    LET g == SequenceWindowReceive(st.sequence_window, dg.seq)
    IN DecodeFrames([st EXCEPT !.sequence_window = g.w], dg.frames, 0)

\* RakStream::decode_datagram
decode_datagram(st, dg) ==
    LET g == SequenceWindowReceive(st.sequence_window, dg.seq)
    IN IF ~g.ok THEN [st |-> st, ok |-> TRUE]
       ELSE DecodeFrames([st EXCEPT !.sequence_window = g.w], dg.frames, 0)

\* RakStream::read_receipts over the records of a receipt whose count field
\* is count: the sequence numbers are pushed on self.receipts as they are
\* read; a record type other than 0 and 1 ends the read with an error, and
\* so does a count that asks for a record after the last one
RECURSIVE read_receipts(_, _, _)
read_receipts(receipts, records, count) ==
    IF count <= 0 THEN [receipts |-> receipts, ok |-> TRUE]
    ELSE IF records = <<>> THEN [receipts |-> receipts, ok |-> FALSE]
    ELSE LET r == records[1]
         IN IF r.type = 0
            THEN read_receipts(receipts \o RangeSeq(r.first, r.last), Tail(records), count - 1)
            ELSE IF r.type = 1
            THEN read_receipts(Append(receipts, r.first), Tail(records), count - 1)
            ELSE [receipts |-> receipts, ok |-> FALSE]

\* the loop of decode_ack over self.receipts
RECURSIVE AcknowledgeAll(_, _)
AcknowledgeAll(rw, receipts) ==
    IF receipts = <<>> THEN rw
    ELSE AcknowledgeAll(RecoveryWindowAcknowledge(rw, receipts[1]), Tail(receipts))

\* RakStream::decode_ack
decode_ack(st, dg) ==
    LET rr == read_receipts(st.receipts, dg.records, dg.count)
    IN IF ~rr.ok THEN [st |-> [st EXCEPT !.receipts = rr.receipts], ok |-> FALSE]
       ELSE [st |-> [st EXCEPT !.receipts = <<>>,
                               !.recovery_window = AcknowledgeAll(st.recovery_window, rr.receipts),
                               !.events = Append(st.events, Event("Latency", <<>>))],
             ok |-> TRUE]

\* the loop of decode_nack over self.receipts
RECURSIVE RetransmitAll(_, _)
RetransmitAll(st, receipts) ==
    IF receipts = <<>> THEN st
    ELSE LET r == RecoveryWindowRetransmit(st.recovery_window, receipts[1])
             st1 == flush(st, r.packet, "nack")
             st2 == [st1 EXCEPT !.recovery_window =
                                    RecoveryWindowAdd(r.rw, st.sequence_number, r.packet),
                                !.sequence_number = st.sequence_number + 1]
         IN RetransmitAll(IF r.found THEN st2 ELSE st, Tail(receipts))

\* RakStream::decode_nack
decode_nack(st, dg) ==
    LET rr == read_receipts(st.receipts, dg.records, dg.count)
        st1 == RetransmitAll([st EXCEPT !.receipts = <<>>], rr.receipts)
    IN IF ~rr.ok THEN [st |-> [st EXCEPT !.receipts = rr.receipts], ok |-> FALSE]
       ELSE [st |-> [st1 EXCEPT !.events = Append(st1.events, Event("Latency", <<>>))],
             ok |-> TRUE]

\* RakStream::decode of one received datagram
decode(st, dg) ==
    LET st1 == [st EXCEPT !.events = Append(st.events, Event("LastActivity", <<>>))]
    IN CASE dg.kind = "login" ->
              [st |-> [st EXCEPT !.events = Append(st.events, Event("DuplicateLogin", <<>>))],
               ok |-> TRUE]
         [] dg.kind = "ack" -> decode_ack(st1, dg)
         [] dg.kind = "nack" -> decode_nack(st1, dg)
         [] dg.kind = "data" -> decode_datagram(st1, dg)
         [] OTHER -> [st |-> st, ok |-> FALSE]

\* Vec::sort
RECURSIVE InsertSorted(_, _)
InsertSorted(s, x) ==
    IF s = <<>> THEN <<x>>
    ELSE IF x <= s[1] THEN <<x>> \o s
    ELSE <<s[1]>> \o InsertSorted(Tail(s), x)

RECURSIVE SortAscending(_)
SortAscending(s) == IF s = <<>> THEN <<>> ELSE InsertSorted(SortAscending(Tail(s)), s[1])

Record(type, first, last) == [type |-> type, first |-> first, last |-> last]

\* the loop of write_receipts over the sorted sequences, index counted from 1
RECURSIVE WriteRecords(_, _, _, _, _)
WriteRecords(sequences, index, first, last, records) ==
    IF index > Len(sequences) THEN records
    ELSE LET sequence == sequences[index]
             last1 == IF sequence = last + 1 THEN sequence ELSE last
         IN IF sequence = last + 1 /\ index # Len(sequences)
            THEN WriteRecords(sequences, index + 1, first, last1, records)
            ELSE WriteRecords(sequences, index + 1, sequence, sequence,
                              Append(records, IF first = last1
                                              THEN Record(1, first, first)
                                              ELSE Record(0, first, last1)))

\* RakStream::write_receipts: the receipt datagram written for the
\* non-empty list of sequences; count is the record count field
write_receipts(sequences, nack) ==
    LET sorted == SortAscending(sequences)
        records == WriteRecords(sorted, 1, sorted[1], sorted[1], <<>>)
    IN [kind |-> IF nack THEN "nack" ELSE "ack", records |-> records, count |-> Len(records)]

\* a flush that clears the lists without shifting the window
FlushWindowKeepsStart(w) == [w EXCEPT !.acks = <<>>, !.nacks = <<>>]

\* what flush_receipts does to the sequence window: shift, then
\* write_receipts clears each non-empty list
FlushWindow(w) == [SequenceWindowShift(w) EXCEPT !.acks = <<>>, !.nacks = <<>>]

\* RakStream::flush_receipts (with write_ack and write_nack)
flush_receipts(st) ==
    LET w == SequenceWindowShift(st.sequence_window)
        sent1 == IF Len(w.acks) > 0
                 THEN Append(st.sent, write_receipts(w.acks, FALSE)) ELSE st.sent
        sent2 == IF Len(w.nacks) > 0
                 THEN Append(sent1, write_receipts(w.nacks, TRUE)) ELSE sent1
    IN [st EXCEPT !.sequence_window = FlushWindow(st.sequence_window),
                  !.sent = sent2]

\* RecoveryWindow with its clock readings (window.rs 160-231): a Record keeps
\* the instant of add, delays keeps one sample per acknowledge or retransmit,
\* keyed by the instant it was recorded at. Instants are clock readings in
\* milliseconds; two samples are two entries (Instant::now() of two calls
\* are taken as distinct keys).
TimedRecoveryWindowNew == [unacknowledged |-> EmptyMap, delays |-> <<>>]

NoCall == [op |-> "none", sequence |-> 0, at |-> 0,
           before |-> TimedRecoveryWindowNew, result |-> 0, calls |-> 0]

Sample(time, duration) == [time |-> time, duration |-> duration]

\* add (window.rs 183-191)
add(w, sequence, packet, t) ==
    [w EXCEPT !.unacknowledged =
        MapPut(w.unacknowledged, sequence, [packet |-> packet, instant |-> t])]

\* acknowledge (window.rs 194-198)
acknowledge(w, sequence, t) ==
    IF sequence \in DOMAIN w.unacknowledged
    THEN [unacknowledged |-> MapRemove(w.unacknowledged, sequence),
          delays |-> Append(w.delays,
                            Sample(t, t - w.unacknowledged[sequence].instant))]
    ELSE w

\* retransmit (window.rs 202-210)
retransmit(w, sequence, t) ==
    IF sequence \in DOMAIN w.unacknowledged
    THEN [unacknowledged |-> MapRemove(w.unacknowledged, sequence),
          delays |-> Append(w.delays,
                            Sample(t, (t - w.unacknowledged[sequence].instant) * 2))]
    ELSE w

\* Duration::as_secs of a span of ms milliseconds: the whole seconds in it
as_secs(ms) == ms \div 1000

RECURSIVE Retained(_, _)
\* delays.retain(|&time, _| time.elapsed().as_secs() <= 5) (window.rs 218)
Retained(delays, t) ==
    IF delays = <<>> THEN <<>>
    ELSE LET rest == Retained(Tail(delays), t)
         IN IF as_secs(t - delays[1].time) <= 5 THEN <<delays[1]>> \o rest ELSE rest

RECURSIVE Total(_)
Total(delays) == IF delays = <<>> THEN 0 ELSE delays[1].duration + Total(Tail(delays))

\* rtt (window.rs 214-230): the window after the purge and the mean returned
rtt(w, t) ==
    LET kept == Retained(w.delays, t)
    IN [rw |-> [w EXCEPT !.delays = kept],
        result |-> IF Len(kept) # 0 THEN Total(kept) \div Len(kept) ELSE 0]

\* ========================================================================
\* State
\* ========================================================================
VARIABLES
    sw,         \* a SequenceWindow on its own
    swLog,      \* the receive calls made on sw: [seq, ok, shifts]; shifts is the
                \* number of ack-flushes made before the call
    swShifts,   \* the number of ack-flushes made on sw
    mw,         \* a MessageWindow on its own
    mwLog,      \* the receive calls made on mw: [index, ok, before, prior]
    stream,     \* the RakStream of a connection
    alive,      \* whether the connection still exists
    steps,      \* the number of operations made on stream
    last,       \* the last operation on stream: [op, dg, before]
    receipted,  \* the sequence numbers named by the receipts stream decoded
    peer,       \* the RakStream at the other end of the connection
    script,     \* the GamePackets the peer's host sends, in order
    toStream,   \* the datagrams of peer.sent the network gave to stream, in order
    toPeer,     \* the datagrams of stream.sent the network gave to peer
    tick,       \* the phase of the periodic timer of the flush systems
    listener,   \* the server: its Mappings, the RakStream entities, what it sent
    now,        \* the clock, in milliseconds
    ingress,    \* the last datagram the server read: [addr, dg, route, before]
    rw,         \* a RecoveryWindow on its own, with its send instants and delays
    rwLast,     \* the last call made on rw: [op, sequence, at, before, result, calls]
    spw,        \* a SplitWindow on its own
    spwLog      \* the receive calls made on spw: [index, status, bytes]

vars == <<sw, swLog, swShifts, mw, mwLog, stream, alive, steps, last, receipted,
          peer, script, toStream, toPeer, tick, listener, now, ingress, rw, rwLast,
          spw, spwLog>>

rwVars == <<rw, rwLast>>

spwVars == <<spw, spwLog>>

listenerVars == <<listener, now, ingress>>

linkVars == <<peer, script, toStream, toPeer>>

streamVars == <<stream, alive, steps, last, receipted>>

swVars == <<sw, swLog, swShifts>>

mwVars == <<mw, mwLog>>

SpwIdle == spw = SplitWindowNew(0) /\ spwLog = <<>>

RwIdle == rw = TimedRecoveryWindowNew /\ rwLast = NoCall

SwIdle == sw = SequenceWindowNew /\ swLog = <<>> /\ swShifts = 0

MwIdle == mw = MessageWindowNew /\ mwLog = <<>>

NoDatagram == [kind |-> "none"]

NoOp == [op |-> "none", dg |-> NoDatagram, before |-> RakStreamNew(MAX_MTU_SIZE, TRUE)]

StreamIdle ==
    /\ stream = RakStreamNew(MAX_MTU_SIZE, TRUE)
    /\ alive = TRUE /\ steps = 0 /\ last = NoOp /\ receipted = {}

LinkIdle ==
    /\ peer = RakStreamNew(MAX_MTU_SIZE, TRUE)
    /\ script = <<>> /\ toStream = <<>> /\ toPeer = {}

TimerIdle == tick = 0

\* a server that read nothing yet: Mappings::default(), no RakStream entity;
\* guid is the SocketInfo guid, drawn at random by ServerBundle::new; status
\* holds NetworkStatus.last_activity of every entity; read is the number of
\* events the EventReader of connection_tick has read
ListenerNew ==
    [connections |-> EmptyMap, blocked |-> EmptyMap, packets_per_sec |-> EmptyMap,
     invalid_packets |-> EmptyMap, world |-> EmptyMap, next_entity |-> 1,
     wire |-> <<>>, events |-> <<>>, guid |-> 1, status |-> EmptyMap, read |-> 0]

NoIngress == [addr |-> "none", dg |-> NoDatagram, route |-> "none", before |-> ListenerNew]

ListenerIdle == listener = ListenerNew /\ now = 0 /\ ingress = NoIngress

\* ========================================================================
\* SpecSW: a SequenceWindow under receive calls and ack-flushes
\* ========================================================================
\* the sequence numbers offered: the low ones and the edge of the window
SeqInputs == (0..MaxSeq) \cup {WINDOW_SIZE - 1, WINDOW_SIZE}

SwReceive(seq) ==
    /\ Len(swLog) < MaxSwCalls
    /\ LET r == SequenceWindowReceive(sw, seq)
       IN /\ sw' = r.w
          /\ swLog' = Append(swLog, [seq |-> seq, ok |-> r.ok, shifts |-> swShifts])
    /\ UNCHANGED <<spwVars, rwVars, swShifts, mwVars, listenerVars, streamVars, linkVars, tick>>

SwFlush ==
    /\ swShifts < MaxShifts
    /\ sw' = FlushWindow(sw)
    /\ swShifts' = swShifts + 1
    /\ UNCHANGED <<spwVars, rwVars, swLog, mwVars, listenerVars, streamVars, linkVars, tick>>

InitSW == SpwIdle /\ RwIdle /\ SwIdle /\ MwIdle /\ StreamIdle /\ LinkIdle /\ TimerIdle /\ ListenerIdle

NextSW == (\E seq \in SeqInputs : SwReceive(seq)) \/ SwFlush

SpecSW == InitSW /\ [][NextSW]_vars

\* ========================================================================
\* SpecMW: a MessageWindow under receive calls
\* ========================================================================
IndexInputs == (0..MaxIndex) \cup {WINDOW_SIZE, WINDOW_SIZE + 1}

\* the indexes an earlier receive call accepted
Accepted(log) == {log[i].index : i \in {j \in DOMAIN log : log[j].ok}}

MwReceive(index) ==
    /\ Len(mwLog) < MaxMwCalls
    /\ LET r == MessageWindowReceive(mw, index)
       IN /\ mw' = r.w
          /\ mwLog' = Append(mwLog, [index |-> index, ok |-> r.ok, before |-> mw,
                                     prior |-> index \in Accepted(mwLog)])
    /\ UNCHANGED <<spwVars, rwVars, swVars, listenerVars, streamVars, linkVars, tick>>

InitMW == SpwIdle /\ RwIdle /\ SwIdle /\ MwIdle /\ StreamIdle /\ LinkIdle /\ TimerIdle /\ ListenerIdle

NextMW == \E index \in IndexInputs : MwReceive(index)

SpecMW == InitMW /\ [][NextMW]_vars

\* ------------------------------------------------------------------------
\* C8: for unique sequence numbers of the initial window delivered in any
\* order to a fresh SequenceWindow with no shift in between, after each
\* receive the acks are exactly the sequence numbers delivered so far, and
\* acks and nacks are disjoint.
\* ------------------------------------------------------------------------
Delivered(log) == {log[i].seq : i \in DOMAIN log}

UniqueInWindow(log) ==
    /\ \A i, j \in DOMAIN log : i # j => log[i].seq # log[j].seq
    /\ \A i \in DOMAIN log : log[i].seq < WINDOW_SIZE

C8_AcksAreDelivered ==
    (swShifts = 0 /\ UniqueInWindow(swLog)) =>
        /\ Range(sw.acks) = Delivered(swLog)
        /\ Range(sw.acks) \cap Range(sw.nacks) = {}

\* three unique deliveries out of order: a gap was nacked and then filled
C8_Witness ==
    /\ swShifts = 0 /\ UniqueInWindow(swLog) /\ Len(swLog) = 3
    /\ swLog[1].seq = 2 /\ swLog[2].seq = 0 /\ swLog[3].seq = 3
    /\ Range(sw.nacks) = {1}

\* ------------------------------------------------------------------------
\* C9: MessageWindow.receive with an index that an earlier receive call
\* accepted returns false and leaves start, end and the stored indexes
\* unchanged.
\* ------------------------------------------------------------------------
C9_DuplicateRejected ==
    \A i \in DOMAIN mwLog :
        mwLog[i].prior =>
            /\ ~mwLog[i].ok
            /\ (i = Len(mwLog) => mw = mwLog[i].before)
            /\ (i < Len(mwLog) => mwLog[i + 1].before = mwLog[i].before)

\* an index is offered again after the window slid past it, and another
\* while it is still stored
C9_Witness ==
    /\ Len(mwLog) >= 4
    /\ \E i, j \in DOMAIN mwLog :
          /\ mwLog[i].prior /\ mwLog[i].index < mwLog[i].before.start
          /\ mwLog[j].prior /\ Contains(mwLog[j].before.indexes, mwLog[j].index)

\* ========================================================================
\* Spec: the RakStream of one connection under the datagrams of its peer,
\* the host's commands and the periodic systems
\* ========================================================================
\* whether the build checks arithmetic overflow
OverflowChecks == {TRUE, FALSE}

\* the GamePackets the host sends: two of the long ones do not fit in one
\* datagram buffer, a long and a short one fill it to its last bytes
HostMessages == {GamePacket(1, 470), GamePacket(2, 1000)}

\* frames the peer sends: ReliableOrdered GamePackets with message index
\* and order index i
InMessage(i) == GamePacket(10 + i, 20)

InOrdered(i) ==
    Frame("ReliableOrdered", i, 0, i, FALSE, 0, 0, 0, Serialize(InMessage(i)))

\* the two fragments of a GamePacket of 2000 bytes split at MTU 1500
\* (1448 bytes a fragment), message indexes 3 and 4, split id 0
InSplitMessage == GamePacket(20, 2000)

InFragment(k) ==
    Frame("ReliableOrdered", 3 + k, 0, 3, TRUE, 2, 0, k,
          Slice(InSplitMessage, k * 1448, Min(k * 1448 + 1448, 2001)))

InPing == Frame("Unreliable", 0, 0, 0, FALSE, 0, 0, 0, Serialize(Control("ConnectedPing", 1)))

\* a frame whose length field is 0, and one with reliability 5
InEmpty == Frame("Reliable", 0, 0, 0, FALSE, 0, 0, 0, <<>>)

InInvalid == Frame("Invalid", 0, 0, 0, FALSE, 0, 0, 0, Serialize(InMessage(0)))

\* a ConnectedPing in a Reliable frame with message index 5
InPingReliable ==
    Frame("Reliable", 5, 0, 0, FALSE, 0, 0, 0, Serialize(Control("ConnectedPing", 2)))

InFrameLists ==
    {<<InOrdered(i)>> : i \in 0..2} \cup {<<InFragment(k)>> : k \in 0..1}
        \cup {<<InPing>>, <<InEmpty>>, <<InInvalid>>}
        \cup {<<InOrdered(0), InOrdered(1)>>, <<InPing, InPingReliable>>}

\* receipts: single records, the range 0..1, and a record of unknown type
\* after a valid one
InRecordLists ==
    {<<Record(1, 0, 0)>>, <<Record(1, 1, 1)>>, <<Record(0, 0, 1)>>,
     <<Record(1, 0, 0), Record(2, 0, 0)>>}

\* the frame lists of the datagrams that come with a sequence number above 0
InLaterFrameLists == {<<InOrdered(0)>>, <<InOrdered(1)>>, <<InFragment(1)>>, <<InPing>>}

InDatagrams ==
    {Datagram(0, fs, "peer") : fs \in InFrameLists}
        \cup {Datagram(seq, fs, "peer") : seq \in 1..MaxInSeq, fs \in InLaterFrameLists}
        \cup {[kind |-> k, records |-> rs, count |-> Len(rs)] :
                 k \in {"ack", "nack"}, rs \in InRecordLists}
        \cup {[kind |-> "login"], [kind |-> "raw"]}

Running == alive /\ steps < MaxSteps /\ ~stream.panicked

Op(op, dg) == [op |-> op, dg |-> dg, before |-> stream]

\* the sequence numbers a receipt names: a range record names first..last
Named(records) ==
    UNION {records[i].first .. records[i].last :
              i \in {j \in DOMAIN records : records[j].type \in {0, 1}}}

\* connection_tick on an OutgoingBatch event
Encode(m) ==
    /\ Running
    /\ stream' = encode(stream, m, "ReliableOrdered")
    /\ steps' = steps + 1
    /\ last' = Op("Encode", NoDatagram)
    /\ UNCHANGED <<spwVars, rwVars, swVars, mwVars, listenerVars, linkVars, tick, alive, receipted>>

\* the flush_batch system
TryFlush ==
    /\ Running
    /\ stream' = try_flush(stream)
    /\ steps' = steps + 1
    /\ last' = Op("TryFlush", NoDatagram)
    /\ UNCHANGED <<spwVars, rwVars, swVars, mwVars, listenerVars, linkVars, tick, alive, receipted>>

\* the flush_receipts system
FlushReceipts ==
    /\ Running
    /\ stream' = flush_receipts(stream)
    /\ steps' = steps + 1
    /\ last' = Op("FlushReceipts", NoDatagram)
    /\ UNCHANGED <<spwVars, rwVars, swVars, mwVars, listenerVars, linkVars, tick, alive, receipted>>

\* client_read_udp / handle_connected_message: one datagram is decoded
Receive(dg) ==
    /\ Running
    /\ stream' = decode(stream, dg).st
    /\ steps' = steps + 1
    /\ last' = Op("Receive", dg)
    /\ receipted' = IF dg.kind \in {"ack", "nack"}
                    THEN receipted \cup Named(dg.records) ELSE receipted
    /\ UNCHANGED <<spwVars, rwVars, swVars, mwVars, listenerVars, linkVars, tick, alive>>

\* a graceful disconnect: RakStream::disconnect, then the connection ends
Disconnect ==
    /\ Running
    /\ stream' = disconnect(stream)
    /\ alive' = FALSE
    /\ steps' = steps + 1
    /\ last' = Op("Disconnect", NoDatagram)
    /\ UNCHANGED <<spwVars, rwVars, swVars, mwVars, listenerVars, linkVars, tick, receipted>>

Init ==
    /\ SpwIdle /\ RwIdle /\ SwIdle /\ MwIdle /\ LinkIdle /\ TimerIdle /\ ListenerIdle
    /\ \E c \in OverflowChecks : stream = RakStreamNew(MAX_MTU_SIZE, c)
    /\ alive = TRUE /\ steps = 0 /\ last = NoOp /\ receipted = {}

Next ==
    \/ \E m \in HostMessages : Encode(m)
    \/ TryFlush
    \/ FlushReceipts
    \/ \E dg \in InDatagrams : Receive(dg)
    \/ Disconnect

Spec == Init /\ [][Next]_vars

\* ------------------------------------------------------------------------
\* Observations on the stream of Spec
\* ------------------------------------------------------------------------
Unacknowledged(st) == st.recovery_window.unacknowledged

HasReliableFrame(d) == \E i \in DOMAIN d.frames : reliable(d.frames[i].rel)

\* what the last operation gave to the socket
NewlySent == SubSeq(stream.sent, Len(last.before.sent) + 1, Len(stream.sent))

WellFormed(records) == \A i \in DOMAIN records : records[i].type \in {0, 1}

\* ------------------------------------------------------------------------
\* C1: on one connection a frame carrying a given reliable message index
\* passes to message handling at most once, whatever datagrams arrive.
\* ------------------------------------------------------------------------
C1_AtMostOnce ==
    \A i, j \in DOMAIN stream.handled :
        (i < j /\ reliable(stream.handled[i].rel) /\ reliable(stream.handled[j].rel))
            => stream.handled[i].midx # stream.handled[j].midx

\* a datagram with a new sequence number is accepted by the sequence window
\* and carries a reliable frame whose index was handled before: the frame is
\* not handled again
C1_Witness ==
    /\ last.op = "Receive" /\ last.dg.kind = "data"
    /\ Contains(stream.sequence_window.acks, last.dg.seq)
    /\ ~Contains(last.before.sequence_window.acks, last.dg.seq)
    /\ \E k \in DOMAIN last.dg.frames :
          /\ reliable(last.dg.frames[k].rel)
          /\ \E i \in DOMAIN last.before.handled :
                /\ reliable(last.before.handled[i].rel)
                /\ last.before.handled[i].midx = last.dg.frames[k].midx
    /\ stream.handled = last.before.handled

\* ------------------------------------------------------------------------
\* C3: every data datagram the connection flushed that carries a reliable
\* frame has an entry in the RecoveryWindow under its sequence number until
\* an ACK or a NACK names it or the connection ends, whichever path flushed
\* it.
\* ------------------------------------------------------------------------
C3_FlushedReliableInRecovery ==
    alive =>
        \A i \in DOMAIN stream.sent :
            (stream.sent[i].kind = "data" /\ HasReliableFrame(stream.sent[i]))
                => \/ stream.sent[i].seq \in DOMAIN Unacknowledged(stream)
                   \/ stream.sent[i].seq \in receipted

\* ------------------------------------------------------------------------
\* C4: when a NACK receipt names a sequence number s of the recovery
\* window, the stored bytes leave unchanged in a new datagram under the next
\* unused sequence number (never s), the entry for s is removed and the
\* bytes are stored again under the new sequence number.
\* ------------------------------------------------------------------------
C4_NackRetransmits ==
    (last.op = "Receive" /\ last.dg.kind = "nack" /\ WellFormed(last.dg.records)) =>
        /\ \A s \in Named(last.dg.records) \cap DOMAIN Unacknowledged(last.before) :
              /\ s \notin DOMAIN Unacknowledged(stream)
              /\ \E i \in DOMAIN NewlySent :
                    /\ NewlySent[i].kind = "data"
                    /\ NewlySent[i].frames = Unacknowledged(last.before)[s]
                    /\ NewlySent[i].seq # s
              /\ \E n \in DOMAIN Unacknowledged(stream) :
                    /\ n >= last.before.sequence_number
                    /\ Unacknowledged(stream)[n] = Unacknowledged(last.before)[s]
        /\ \A i \in DOMAIN NewlySent :
              NewlySent[i].seq = last.before.sequence_number + i - 1

\* ------------------------------------------------------------------------
\* C7: at each ack-flush the ACK receipt sent names exactly the acks and the
\* NACK receipt exactly the nacks; at most one of each is sent, none for an
\* empty set, and afterwards both sets are empty.
\* ------------------------------------------------------------------------
ReceiptsOf(kind) == SelectSeq(NewlySent, LAMBDA d : d.kind = kind)

CoversExactly(kind, sequences) ==
    IF sequences = <<>> THEN ReceiptsOf(kind) = <<>>
    ELSE /\ Len(ReceiptsOf(kind)) = 1
         /\ Named(ReceiptsOf(kind)[1].records) = Range(sequences)

C7_ReceiptsCoverSets ==
    last.op = "FlushReceipts" =>
        /\ CoversExactly("ack", last.before.sequence_window.acks)
        /\ CoversExactly("nack", last.before.sequence_window.nacks)
        /\ stream.sequence_window.acks = <<>>
        /\ stream.sequence_window.nacks = <<>>

\* ========================================================================
\* SpecLink: two RakStreams joined by a network that may lose and reorder
\* datagrams. The host of peer sends the GamePackets of script; stream
\* receives.
\* ========================================================================
\* three short GamePackets, and GamePackets of 2000, 3000 and 5000 bytes
\* (2, 3 and 4 fragments at MTU 1500)
LinkScripts ==
    {<<GamePacket(1, 99), GamePacket(2, 99), GamePacket(3, 99)>>,
     <<GamePacket(4, 1999)>>, <<GamePacket(5, 2999)>>, <<GamePacket(6, 4999)>>}

LinkRunning == ~peer.panicked /\ ~stream.panicked

\* connection_tick of peer on the next OutgoingBatch of its host
PeerEncode ==
    /\ LinkRunning
    /\ peer.order_index < Len(script)
    /\ peer' = encode(peer, script[peer.order_index + 1], "ReliableOrdered")
    /\ UNCHANGED <<spwVars, rwVars, swVars, mwVars, listenerVars, streamVars, script, toStream, toPeer, tick>>

\* the flush_batch system at peer
PeerTryFlush ==
    /\ LinkRunning
    /\ peer.buffer # <<>>
    /\ peer' = try_flush(peer)
    /\ UNCHANGED <<spwVars, rwVars, swVars, mwVars, listenerVars, streamVars, script, toStream, toPeer, tick>>

\* the network gives a datagram peer sent to stream, each at most once and
\* in any order: client_read_udp / handle_connected_message at stream
Deliver(i) ==
    /\ LinkRunning
    /\ i \in DOMAIN peer.sent /\ ~Contains(toStream, i)
    /\ stream' = decode(stream, peer.sent[i]).st
    /\ toStream' = Append(toStream, i)
    /\ UNCHANGED <<spwVars, rwVars, swVars, mwVars, listenerVars, alive, steps, last, receipted, peer, script, toPeer, tick>>

\* the flush_receipts system at stream
StreamFlushReceipts ==
    /\ LinkRunning
    /\ steps < MaxLinkTicks
    /\ stream' = flush_receipts(stream)
    /\ steps' = steps + 1
    /\ UNCHANGED <<spwVars, rwVars, swVars, mwVars, listenerVars, alive, last, receipted, linkVars, tick>>

\* the network gives a datagram stream sent (a receipt) to peer
Return(j) ==
    /\ LinkRunning
    /\ j \in DOMAIN stream.sent /\ j \notin toPeer
    /\ peer' = decode(peer, stream.sent[j]).st
    /\ toPeer' = toPeer \cup {j}
    /\ UNCHANGED <<spwVars, rwVars, swVars, mwVars, listenerVars, streamVars, script, toStream, tick>>

InitLink ==
    /\ SpwIdle /\ RwIdle /\ SwIdle /\ MwIdle /\ StreamIdle /\ TimerIdle /\ ListenerIdle
    /\ peer = RakStreamNew(MAX_MTU_SIZE, TRUE)
    /\ script \in LinkScripts
    /\ toStream = <<>> /\ toPeer = {}

NextLink ==
    \/ PeerEncode
    \/ PeerTryFlush
    \/ \E i \in DOMAIN peer.sent : Deliver(i)
    \/ StreamFlushReceipts
    \/ \E j \in DOMAIN stream.sent : Return(j)

SpecLink == InitLink /\ [][NextLink]_vars

\* ------------------------------------------------------------------------
\* Observations on the streams of SpecLink
\* ------------------------------------------------------------------------
\* the payloads of the IncomingBatch events stream wrote, in order
Batches(st) ==
    LET batches == SelectSeq(st.events, LAMBDA e : e.type = "IncomingBatch")
    IN [i \in DOMAIN batches |-> batches[i].data]

\* the payload of a GamePacket: its bytes after the id byte
Payload(m) == Slice(m, 1, SerializedLen(m))

\* ------------------------------------------------------------------------
\* C2: ReliableOrdered messages reach the host of the receiver in the order
\* they were sent, whatever the network loses or reorders: none is
\* delivered before a message with a lower order index.
\* ------------------------------------------------------------------------
C2_OrderedDelivery ==
    \A i, j \in DOMAIN Batches(stream) :
        \A a, b \in DOMAIN script :
            (/\ i < j
             /\ Batches(stream)[i] = Payload(script[a])
             /\ Batches(stream)[j] = Payload(script[b])) => a < b

\* ------------------------------------------------------------------------
\* C6: when a message longer than one frame is encoded and its N >= 2
\* fragments reach the peer's decode once each in index order, the peer
\* emits one message, byte-identical to the original, and none before the
\* last fragment arrived.
\* ------------------------------------------------------------------------
\* the fragments arrived so far are the first k datagrams, in order, and no
\* ack-flush shifted the window
InIndexOrder == toStream = RangeSeq(1, Len(toStream) + 1) /\ steps = 0

FragmentCount(m) == split(peer, SerializedLen(m)).count

C6_FragmentRoundTrip ==
    (Len(script) = 1 /\ peer.order_index = 1 /\ peer.buffer = <<>> /\ InIndexOrder) =>
        /\ ~stream.panicked
        /\ Batches(stream) = IF Len(toStream) = FragmentCount(script[1])
                             THEN <<Payload(script[1])>> ELSE <<>>

\* ========================================================================
\* SpecTimer: a RakStream whose peer is silent (no datagram arrives), under
\* the host's GamePackets and the periodic systems, which run for ever
\* ========================================================================
TimerMessages == {GamePacket(1, 100), GamePacket(2, 200)}

\* connection_tick on an OutgoingBatch event
TimerEncode(m) ==
    /\ stream.order_index < MaxTimerEncodes
    /\ stream' = encode(stream, m, "ReliableOrdered")
    /\ UNCHANGED <<spwVars, rwVars, swVars, mwVars, listenerVars, linkVars, tick, alive, steps, last, receipted>>

\* the flush_batch system, run on_timer
TickFlushBatch ==
    /\ stream' = try_flush(stream)
    /\ tick' = 1 - tick
    /\ UNCHANGED <<spwVars, rwVars, swVars, mwVars, listenerVars, linkVars, alive, steps, last, receipted>>

\* the flush_receipts system, run on_timer
TickFlushReceipts ==
    /\ stream.sequence_window.start < MaxTimerShifts
    /\ stream' = flush_receipts(stream)
    /\ UNCHANGED <<spwVars, rwVars, swVars, mwVars, listenerVars, linkVars, tick, alive, steps, last, receipted>>

InitTimer ==
    /\ SpwIdle /\ RwIdle /\ SwIdle /\ MwIdle /\ LinkIdle /\ TimerIdle /\ ListenerIdle
    /\ \E c \in OverflowChecks : stream = RakStreamNew(MAX_MTU_SIZE, c)
    /\ alive = TRUE /\ steps = 0 /\ last = NoOp /\ receipted = {}

NextTimer ==
    \/ \E m \in TimerMessages : TimerEncode(m)
    \/ TickFlushBatch
    \/ TickFlushReceipts

\* the schedule runs each periodic system again and again
SpecTimer ==
    /\ InitTimer /\ [][NextTimer]_vars
    /\ WF_vars(TickFlushBatch) /\ WF_vars(TickFlushReceipts)

\* ------------------------------------------------------------------------
\* C5: a flushed reliable datagram for which the peer sends neither an ACK
\* nor a NACK is eventually sent again by the sender, provided the periodic
\* systems keep running.
\* ------------------------------------------------------------------------
\* a data datagram with a reliable frame left under sequence number s
Flushed(s) ==
    \E i \in DOMAIN stream.sent :
        /\ stream.sent[i].kind = "data" /\ stream.sent[i].seq = s
        /\ HasReliableFrame(stream.sent[i])

\* the frames that left under s left again in a later datagram
Retransmitted(s) ==
    \E i, j \in DOMAIN stream.sent :
        /\ i < j
        /\ stream.sent[i].kind = "data" /\ stream.sent[i].seq = s
        /\ stream.sent[j].kind = "data" /\ stream.sent[j].frames = stream.sent[i].frames

C5_EventuallyRetransmitted ==
    \A s \in 0..MaxTimerEncodes : Flushed(s) ~> Retransmitted(s)

\* ========================================================================
\* The server's socket (src/net/socket.rs) and server_read_udp (src/net/mod.rs)
\* ========================================================================
\* an unconnected message as it arrives: len is the length of the datagram,
\* magic tells whether the unconnected message sequence is the right one
Unconnected(id, protocol, len, client_mtu, magic) ==
    [kind |-> "unconnected", id |-> id, protocol |-> protocol, len |-> len,
     client_mtu |-> client_mtu, magic |-> magic]

\* what write_to gives to the socket for addr: the id of the message, its
\* mtu field, its server_protocol field and its server_guid field (0 stands
\* for a field the message does not have)
Sent(to, id, mtu, server_protocol, server_guid) ==
    [to |-> to, id |-> id, mtu |-> mtu, server_protocol |-> server_protocol,
     server_guid |-> server_guid]

\* unix_timestamp(): the wall clock in seconds
unix_timestamp(t) == t \div 1000

\* RakSocket::block
block(ls, addr, t) ==
    [ls EXCEPT !.blocked = MapPut(ls.blocked, addr, unix_timestamp(t) + RAKNET_BLOCK_DUR)]

\* is_blocked without the removal of an entry that has expired
is_blockedKeepsEntry(ls, addr, t) ==
    [ls |-> ls,
     result |-> addr \in DOMAIN ls.blocked /\ ls.blocked[addr] > unix_timestamp(t)]

\* RakSocket::is_blocked
is_blocked(ls, addr, t) ==
    IF addr \in DOMAIN ls.blocked
    THEN IF ls.blocked[addr] > unix_timestamp(t)
         THEN [ls |-> ls, result |-> TRUE]
         ELSE [ls |-> [ls EXCEPT !.blocked = MapRemove(ls.blocked, addr)], result |-> FALSE]
    ELSE [ls |-> ls, result |-> FALSE]

\* the rest of check_packet_spam once the entry (instant, packets) of addr
\* is taken out of the map
CountPacket(ls, addr, t, entry) ==
    IF t - entry.instant < 1000
    THEN IF entry.packets + 1 = MAX_MSGS_PER_SEC
         THEN [ls |-> block(ls, addr, t), result |-> TRUE]
         ELSE [ls |-> [ls EXCEPT !.packets_per_sec =
                           MapPut(ls.packets_per_sec, addr,
                                  [instant |-> entry.instant, packets |-> entry.packets + 1])],
               result |-> FALSE]
    ELSE [ls |-> [ls EXCEPT !.packets_per_sec =
                      MapPut(ls.packets_per_sec, addr, [instant |-> t, packets |-> 0])],
          result |-> FALSE]

\* RakSocket::check_packet_spam
check_packet_spam(ls, addr, t) ==
    CountPacket([ls EXCEPT !.packets_per_sec = MapRemove(ls.packets_per_sec, addr)], addr, t,
                IF addr \in DOMAIN ls.packets_per_sec THEN ls.packets_per_sec[addr]
                ELSE [instant |-> t, packets |-> 0])

\* check_invalid_packets that blocks one datagram late
check_invalid_packetsLate(ls, addr, t) ==
    LET invalid_packets ==
            (IF addr \in DOMAIN ls.invalid_packets THEN ls.invalid_packets[addr] ELSE 0) + 1
    IN IF invalid_packets = MAX_INVALID_MSGS + 1
       THEN block([ls EXCEPT !.invalid_packets = MapRemove(ls.invalid_packets, addr)], addr, t)
       ELSE [ls EXCEPT !.invalid_packets = MapPut(ls.invalid_packets, addr, invalid_packets)]

\* RakSocket::check_invalid_packets
check_invalid_packets(ls, addr, t) ==
    LET invalid_packets ==
            (IF addr \in DOMAIN ls.invalid_packets THEN ls.invalid_packets[addr] ELSE 0) + 1
    IN IF invalid_packets = MAX_INVALID_MSGS
       THEN block([ls EXCEPT !.invalid_packets = MapRemove(ls.invalid_packets, addr)], addr, t)
       ELSE [ls EXCEPT !.invalid_packets = MapPut(ls.invalid_packets, addr, invalid_packets)]

\* the stream of entity after decode of dg; an Err of decode writes
\* MalformedPackets
DecodeAt(ls, entity, r) ==
    [ls EXCEPT !.world = MapPut(ls.world, entity, r.st),
               !.events = IF r.ok THEN @ ELSE Append(@, Event("MalformedPackets", entity))]

\* RakSocket::handle_connected_message: result tells whether the datagram
\* was taken as a connected one, route what was done with it
handle_connected_message(ls, addr, dg) ==
    IF addr \in DOMAIN ls.connections
    THEN IF ls.connections[addr] \in DOMAIN ls.world
         THEN [ls |-> DecodeAt(ls, ls.connections[addr],
                               decode(ls.world[ls.connections[addr]], dg)),
               result |-> TRUE, route |-> "connected"]
         ELSE [ls |-> [ls EXCEPT !.connections = MapRemove(ls.connections, addr)],
               result |-> TRUE, route |-> "stale"]
    ELSE [ls |-> ls, result |-> FALSE, route |-> "none"]

\* Message::deserialize on the datagram: a datagram of a connection starts
\* with a byte that is no message id, and a wrong magic is an error
Readable(dg) == dg.kind = "unconnected" /\ dg.id # "Unknown" /\ dg.magic

write_to(ls, addr, id, mtu, server_protocol) ==
    [ls EXCEPT !.wire = Append(ls.wire, Sent(addr, id, mtu, server_protocol, ls.guid))]

\* the OpenConnectionRequest1 arm without the test of the protocol
OpenConnectionRequest1AnyProtocol(ls, addr, dg) ==
    [write_to(ls, addr, "OpenConnectionReply1", Min(dg.len + UDP_HEADER_SIZE, MAX_MTU_SIZE), 0)
        EXCEPT !.events = Append(ls.events, Event("ConnectionRequest", addr))]

\* the OpenConnectionRequest1 arm with the length of the packet as the MTU
OpenConnectionRequest1NoHeader(ls, addr, dg) ==
    IF dg.protocol # PROTOCOL_VERSION
    THEN write_to(ls, addr, "IncompatibleProtocolVersion", 0, PROTOCOL_VERSION)
    ELSE [write_to(ls, addr, "OpenConnectionReply1", Min(dg.len, MAX_MTU_SIZE), 0)
             EXCEPT !.events = Append(ls.events, Event("ConnectionRequest", addr))]

\* the OpenConnectionRequest1 arm of handle_unconnected_message
OpenConnectionRequest1(ls, addr, dg) ==
    IF dg.protocol # PROTOCOL_VERSION
    THEN write_to(ls, addr, "IncompatibleProtocolVersion", 0, PROTOCOL_VERSION)
    ELSE [write_to(ls, addr, "OpenConnectionReply1", Min(dg.len + UDP_HEADER_SIZE, MAX_MTU_SIZE), 0)
             EXCEPT !.events = Append(ls.events, Event("ConnectionRequest", addr))]

\* the OpenConnectionRequest2 arm of handle_unconnected_message; the spawn
\* command is applied when the system ends
OpenConnectionRequest2(ls, addr, dg, t) ==
    [write_to(ls, addr, "OpenConnectionReply2", Min(dg.client_mtu, MAX_MTU_SIZE), 0)
        EXCEPT !.world = MapPut(ls.world, ls.next_entity,
                                RakStreamNew(Min(dg.client_mtu, MAX_MTU_SIZE), TRUE)),
               !.status = MapPut(ls.status, ls.next_entity, t),
               !.connections = MapPut(ls.connections, addr, ls.next_entity),
               !.next_entity = ls.next_entity + 1]

\* RakSocket::handle_unconnected_message: result tells whether it is Ok
handle_unconnected_message(ls, addr, dg, t) ==
    IF ~Readable(dg) THEN [ls |-> ls, result |-> FALSE]
    ELSE [ls |-> CASE dg.id \in {"UnconnectedPing", "UnconnectedPingOpenConnections"} ->
                        write_to(ls, addr, "UnconnectedPong", 0, 0)
                   [] dg.id = "OpenConnectionRequest1" -> OpenConnectionRequest1(ls, addr, dg)
                   [] dg.id = "OpenConnectionRequest2" -> OpenConnectionRequest2(ls, addr, dg, t)
                   [] OTHER -> ls,
          result |-> TRUE]

\* server_read_udp from the call of handle_unconnected_message, which gave u
ReadUnconnected(u, addr, t) ==
    IF u.result THEN [ls |-> u.ls, route |-> "unconnected"]
    ELSE [ls |-> check_invalid_packets(u.ls, addr, t), route |-> "invalid"]

\* server_read_udp from the call of handle_connected_message, which gave c
ReadRouted(ls, c, addr, dg, t) ==
    IF c.result THEN [ls |-> c.ls, route |-> c.route]
    ELSE ReadUnconnected(handle_unconnected_message(ls, addr, dg, t), addr, t)

\* server_read_udp from the call of check_packet_spam, which gave s
ReadCounted(s, addr, dg, t) ==
    IF s.result THEN [ls |-> s.ls, route |-> "spam"]
    ELSE ReadRouted(s.ls, handle_connected_message(s.ls, addr, dg), addr, dg, t)

\* server_read_udp from the call of is_blocked, which gave b
ReadUnblocked(b, addr, dg, t) ==
    IF b.result THEN [ls |-> b.ls, route |-> "blocked"]
    ELSE ReadCounted(check_packet_spam(b.ls, addr, t), addr, dg, t)

\* server_read_udp on the datagram dg from addr at time t: the server after
\* it and what was done with the datagram
server_read_udp(ls, addr, dg, t) == ReadUnblocked(is_blocked(ls, addr, t), addr, dg, t)

\* ========================================================================
\* SpecListener: the server under the datagrams of two sources, the end of
\* connections and the clock
\* ========================================================================
Addrs == {"a", "b"}

ListenerDatagrams ==
    {Unconnected("UnconnectedPing", 0, 33, 0, TRUE),
     Unconnected("OpenConnectionRequest1", PROTOCOL_VERSION, 1464, 0, TRUE),
     Unconnected("OpenConnectionRequest1", PROTOCOL_VERSION - 1, 1464, 0, TRUE),
     Unconnected("OpenConnectionRequest2", 0, 34, 1600, FALSE),
     Unconnected("Unknown", 0, 1, 0, TRUE)}
        \cup {Unconnected("OpenConnectionRequest2", 0, 34, mtu, TRUE) :
                 mtu \in {40, 1400, 1500, 1600}}
        \cup {Datagram(0, <<InOrdered(0)>>, "peer"),
              [kind |-> "ack", records |-> <<Record(1, 0, 0)>>, count |-> 1]}

\* the guid ServerBundle::new may draw
ServerGuids == {1, 2}

\* the clock moves on by a second or by the duration of a block
ClockSteps == {1000, 1000 * RAKNET_BLOCK_DUR}

\* the server when the run starts: source b may have sent datagrams before
ListenerStarts ==
    {[ListenerNew EXCEPT !.invalid_packets = i, !.packets_per_sec = p, !.guid = g] :
        i \in {EmptyMap, MapPut(EmptyMap, "b", MAX_INVALID_MSGS - 1)},
        p \in {EmptyMap, MapPut(EmptyMap, "b", [instant |-> 0, packets |-> MAX_MSGS_PER_SEC - 2])},
        g \in ServerGuids}

\* the server_read_udp system reads one datagram
ServerReadUdp(addr, dg) ==
    /\ steps < MaxListenerSteps
    /\ listener' = server_read_udp(listener, addr, dg, now).ls
    /\ ingress' = [addr |-> addr, dg |-> dg,
                   route |-> server_read_udp(listener, addr, dg, now).route,
                   before |-> listener]
    /\ steps' = steps + 1
    /\ UNCHANGED <<spwVars, rwVars, swVars, mwVars, linkVars, tick, stream, alive, last, receipted, now>>

\* connection_tick on a Disconnect event for entity: the entity is despawned
ConnectionTickDisconnect(entity) ==
    /\ steps < MaxListenerSteps
    /\ entity \in DOMAIN listener.world
    /\ listener' = [listener EXCEPT !.world = MapRemove(listener.world, entity),
                                    !.status = MapRemove(listener.status, entity)]
    /\ ingress' = NoIngress
    /\ steps' = steps + 1
    /\ UNCHANGED <<spwVars, rwVars, swVars, mwVars, linkVars, tick, stream, alive, last, receipted, now>>

\* time passes
Advance(ms) ==
    /\ steps < MaxListenerSteps
    /\ now' = now + ms
    /\ ingress' = NoIngress
    /\ steps' = steps + 1
    /\ UNCHANGED <<spwVars, rwVars, swVars, mwVars, linkVars, tick, stream, alive, last, receipted, listener>>

InitListener ==
    /\ SpwIdle /\ RwIdle /\ SwIdle /\ MwIdle /\ StreamIdle /\ LinkIdle /\ TimerIdle
    /\ listener \in ListenerStarts
    /\ now = 0 /\ ingress = NoIngress

NextListener ==
    \/ \E addr \in Addrs, dg \in ListenerDatagrams : ServerReadUdp(addr, dg)
    \/ \E entity \in 1..MaxListenerSteps : ConnectionTickDisconnect(entity)
    \/ \E ms \in ClockSteps : Advance(ms)

SpecListener == InitListener /\ [][NextListener]_vars

\* ------------------------------------------------------------------------
\* C10: an OpenConnectionRequest2 that the server processes from an
\* unblocked source not in the connection table is answered with
\* OpenConnectionReply2 carrying min(client mtu, MAX_MTU_SIZE); a connection
\* with that MTU and all counters at 0 is created and the source is put in
\* the connection table; and every later datagram from a source with a
\* connection goes to that connection's stream, not to the unconnected
\* handler.
\* ------------------------------------------------------------------------
\* the last datagram was an OpenConnectionRequest2 given to the handshake
Processed ==
    /\ ingress.route = "unconnected"
    /\ ingress.dg.id = "OpenConnectionRequest2"

\* the last datagram came from a source whose connection existed
FromConnection ==
    /\ ingress.route # "none"
    /\ ingress.addr \in DOMAIN ingress.before.connections
    /\ ingress.before.connections[ingress.addr] \in DOMAIN ingress.before.world

FreshStream(st, mtu) ==
    /\ st.mtu_size = mtu
    /\ st.sequence_number = 0 /\ st.message_index = 0 /\ st.sequence_index = 0
    /\ st.order_index = 0 /\ st.split_id = 0

C10_RequestCreatesConnection ==
    /\ Processed =>
          /\ listener.wire = Append(ingress.before.wire,
                                    Sent(ingress.addr, "OpenConnectionReply2",
                                         Min(ingress.dg.client_mtu, MAX_MTU_SIZE), 0,
                                         ingress.before.guid))
          /\ ingress.addr \in DOMAIN listener.connections
          /\ listener.connections[ingress.addr] \notin DOMAIN ingress.before.world
          /\ listener.connections[ingress.addr] \in DOMAIN listener.world
          /\ FreshStream(listener.world[listener.connections[ingress.addr]],
                         Min(ingress.dg.client_mtu, MAX_MTU_SIZE))
    /\ FromConnection =>
          /\ ingress.route = "connected"
          /\ listener.world[ingress.before.connections[ingress.addr]] =
                 decode(ingress.before.world[ingress.before.connections[ingress.addr]],
                        ingress.dg).st

\* ------------------------------------------------------------------------
\* C11: an OpenConnectionRequest1 the handshake handles whose protocol is
\* not PROTOCOL_VERSION (11) is answered with one IncompatibleProtocolVersion
\* carrying server protocol 11 and the server's guid; no OpenConnectionReply1
\* is sent, no ConnectionRequest event is written and the connection table
\* and the connections are as they were.
\* ------------------------------------------------------------------------
MismatchedRequest1 ==
    /\ ingress.route = "unconnected"
    /\ ingress.dg.id = "OpenConnectionRequest1"
    /\ ingress.dg.protocol # PROTOCOL_VERSION

C11_IncompatibleProtocol ==
    MismatchedRequest1 =>
        /\ listener.wire = Append(ingress.before.wire,
                                  Sent(ingress.addr, "IncompatibleProtocolVersion", 0, 11,
                                       ingress.before.guid))
        /\ listener.events = ingress.before.events
        /\ listener.connections = ingress.before.connections
        /\ listener.world = ingress.before.world

\* a request with the wrong protocol arrives at a server that has a
\* connection already
C11_Witness ==
    /\ MismatchedRequest1
    /\ ingress.before.connections # EmptyMap
    /\ ingress.before.guid = 2

\* ------------------------------------------------------------------------
\* C12: of the datagrams a source sends within one second of the first one
\* counted, the first 99 pass the rate limit and the 100th is dropped; the
\* source is then in the blocked table with expiry now + RAKNET_BLOCK_DUR
\* and a Blocked event with reason PacketSpam and duration 10 s is written.
\* ------------------------------------------------------------------------
\* the last datagram came from a source that was not blocked when it came
Counted ==
    /\ ingress.route \notin {"none", "blocked"}

\* the datagrams of the source counted in the running second before the
\* last one
CountedBefore ==
    IF /\ ingress.addr \in DOMAIN ingress.before.packets_per_sec
       /\ now - ingress.before.packets_per_sec[ingress.addr].instant < 1000
    THEN ingress.before.packets_per_sec[ingress.addr].packets
    ELSE 0

C12_RateLimit ==
    Counted =>
        /\ ingress.route = "spam" <=> CountedBefore = 99
        /\ ingress.route = "spam" =>
              /\ ingress.addr \in DOMAIN listener.blocked
              /\ listener.blocked[ingress.addr] = unix_timestamp(now) + 10
              /\ listener.events =
                     Append(ingress.before.events,
                            Event("Blocked", <<ingress.addr, 10, "PacketSpam">>))

\* ------------------------------------------------------------------------
\* C13: a datagram from a source whose block has not expired is dropped and
\* changes nothing (no reply, no counter, no connection, no stream); the
\* first datagram after the expiry removes the block and is handled as the
\* same datagram from a source that was never blocked.
\* ------------------------------------------------------------------------
WasBlocked == ingress.route # "none" /\ ingress.addr \in DOMAIN ingress.before.blocked

Expired == ingress.before.blocked[ingress.addr] <= unix_timestamp(now)

C13_BlockedUntilExpiry ==
    WasBlocked =>
        /\ ~Expired => ingress.route = "blocked" /\ listener = ingress.before
        /\ Expired =>
              /\ ingress.route # "blocked"
              /\ listener =
                     server_read_udp([ingress.before EXCEPT
                                         !.blocked = MapRemove(@, ingress.addr)],
                                     ingress.addr, ingress.dg, now).ls

\* a datagram after the expiry of a block is read and answered
C13_Witness ==
    /\ WasBlocked /\ Expired
    /\ ingress.addr \notin DOMAIN listener.blocked
    /\ Len(listener.wire) > Len(ingress.before.wire)

\* a datagram is dropped while the block lasts
C13_WitnessDropped == WasBlocked /\ ~Expired /\ ingress.dg.kind = "unconnected"

\* ------------------------------------------------------------------------
\* C14: an unconnected datagram that does not decode adds one to the
\* invalid-packet count of its source and is dropped; one that decodes
\* leaves the count alone; the source is blocked when the count reaches
\* MAX_INVALID_MSGS (20) and not before.
\* ------------------------------------------------------------------------
InvalidBefore ==
    IF ingress.addr \in DOMAIN ingress.before.invalid_packets
    THEN ingress.before.invalid_packets[ingress.addr] ELSE 0

InvalidAfter ==
    IF ingress.addr \in DOMAIN listener.invalid_packets
    THEN listener.invalid_packets[ingress.addr] ELSE 0

C14_WitnessCounted ==
    /\ ingress.route = "invalid"
    /\ InvalidBefore = 1 /\ InvalidAfter = 2

\* ========================================================================
\* check_timeout and connection_tick (src/net/mod.rs)
\* ========================================================================
\* the loop of check_timeout over the entities from entity on: a Timeout
\* event for each one whose last activity is more than RAKNET_TIMEOUT ago
RECURSIVE CheckTimeoutFrom(_, _, _)
CheckTimeoutFrom(ls, entity, t) ==
    IF entity >= ls.next_entity THEN ls
    ELSE CheckTimeoutFrom(
             IF entity \in DOMAIN ls.status /\ t - ls.status[entity] > RAKNET_TIMEOUT
             THEN [ls EXCEPT !.events = Append(ls.events, Event("Timeout", entity))]
             ELSE ls,
             entity + 1, t)

\* the check_timeout system at time t
check_timeout(ls, t) == CheckTimeoutFrom(ls, 1, t)

\* one arm of the match of connection_tick, except for despawn: the
\* LastActivity arm stores the instant the event carries, every other event
\* leaves the components alone
TickEvent(ls, event) ==
    IF event.type = "LastActivity" /\ event.data[1] \in DOMAIN ls.status
    THEN [ls EXCEPT !.status = MapPut(ls.status, event.data[1], event.data[2])]
    ELSE ls

\* the loop of connection_tick over the events not read yet
RECURSIVE TickFrom(_, _)
TickFrom(ls, i) ==
    IF i > Len(ls.events) THEN ls ELSE TickFrom(TickEvent(ls, ls.events[i]), i + 1)

\* the entities of the Disconnect events not read yet: connection_tick
\* queues a despawn command for each
Despawned(ls) ==
    {ls.events[i].data : i \in {j \in (ls.read + 1)..Len(ls.events) :
                                    ls.events[j].type = "Disconnect"}}

\* the world once the despawn commands are applied
Despawn(ls, entities) ==
    [ls EXCEPT !.world = [e \in DOMAIN ls.world \ entities |-> ls.world[e]],
               !.status = [e \in DOMAIN ls.status \ entities |-> ls.status[e]]]

\* the connection_tick system: every event is read once
connection_tick(ls) ==
    [Despawn(TickFrom(ls, ls.read + 1), Despawned(ls)) EXCEPT !.read = Len(ls.events)]

\* RakStream::decode for the stream of entity at time t as far as
\* connection_tick sees it: LastActivity, and Disconnect for a
\* DisconnectNotification
activity(ls, entity, t, disconnects) ==
    [ls EXCEPT !.events =
        ls.events \o <<Event("LastActivity", <<entity, t>>)>>
                  \o (IF disconnects THEN <<Event("Disconnect", entity)>> ELSE <<>>)]

\* ========================================================================
\* SpecSweep: the connections of a server under their datagrams, the
\* timeout sweep, connection_tick and the clock
\* ========================================================================
SweepRequest == Unconnected("OpenConnectionRequest2", 0, 34, 1500, TRUE)

\* servers with one and with two connections made at time 0
SweepStarts ==
    {server_read_udp(ListenerNew, "a", SweepRequest, 0).ls,
     server_read_udp(server_read_udp(ListenerNew, "a", SweepRequest, 0).ls,
                     "b", SweepRequest, 0).ls}

\* the clock moves by half of RAKNET_TIMEOUT or by more than all of it
SweepClockSteps == {50, 101}

Swept(route) == [addr |-> "none", dg |-> NoDatagram, route |-> route, before |-> listener]

\* server_read_udp reads a datagram of the connection entity
SweepActivity(entity, disconnects) ==
    /\ steps < MaxSweepSteps
    /\ entity \in DOMAIN listener.world
    /\ listener' = activity(listener, entity, now, disconnects)
    /\ ingress' = Swept("activity")
    /\ steps' = steps + 1
    /\ UNCHANGED <<spwVars, rwVars, swVars, mwVars, linkVars, tick, stream, alive, last, receipted, now>>

\* the check_timeout system runs
CheckTimeout ==
    /\ steps < MaxSweepSteps
    /\ listener' = check_timeout(listener, now)
    /\ ingress' = Swept("check_timeout")
    /\ steps' = steps + 1
    /\ UNCHANGED <<spwVars, rwVars, swVars, mwVars, linkVars, tick, stream, alive, last, receipted, now>>

\* the connection_tick system runs
ConnectionTick ==
    /\ steps < MaxSweepSteps
    /\ listener' = connection_tick(listener)
    /\ ingress' = Swept("connection_tick")
    /\ steps' = steps + 1
    /\ UNCHANGED <<spwVars, rwVars, swVars, mwVars, linkVars, tick, stream, alive, last, receipted, now>>

SweepAdvance(ms) ==
    /\ steps < MaxSweepSteps
    /\ now' = now + ms
    /\ ingress' = NoIngress
    /\ steps' = steps + 1
    /\ UNCHANGED <<spwVars, rwVars, swVars, mwVars, linkVars, tick, stream, alive, last, receipted, listener>>

InitSweep ==
    /\ SpwIdle /\ RwIdle /\ SwIdle /\ MwIdle /\ StreamIdle /\ LinkIdle /\ TimerIdle
    /\ listener \in SweepStarts
    /\ now = 0 /\ ingress = NoIngress

NextSweep ==
    \/ \E entity \in 1..2, disconnects \in BOOLEAN : SweepActivity(entity, disconnects)
    \/ CheckTimeout
    \/ ConnectionTick
    \/ \E ms \in SweepClockSteps : SweepAdvance(ms)

SpecSweep == InitSweep /\ [][NextSweep]_vars

\* ------------------------------------------------------------------------
\* C15: the timeout sweep writes a disconnect-by-timeout event for a
\* connection exactly when its last activity is more than RAKNET_TIMEOUT
\* ago, and once connection_tick has read that event the connection is
\* destroyed: it is no longer present, so no later sweep finds it.
\* ------------------------------------------------------------------------
\* the events written by the last step
NewEvents == SubSeq(listener.events, Len(ingress.before.events) + 1, Len(listener.events))

\* the event by which the sweep tells that entity timed out
TellsTimeout(event, entity) == event.type = "Timeout" /\ event.data = entity

\* the events connection_tick read in the last step
ReadEvents == SubSeq(ingress.before.events, ingress.before.read + 1, Len(ingress.before.events))

C15_TimeoutDestroys ==
    /\ ingress.route = "check_timeout" =>
          \A entity \in DOMAIN ingress.before.world :
              (now - ingress.before.status[entity] > RAKNET_TIMEOUT)
                  <=> \E i \in DOMAIN NewEvents : TellsTimeout(NewEvents[i], entity)
    /\ ingress.route = "connection_tick" =>
          \A entity \in DOMAIN ingress.before.world :
              (\E i \in DOMAIN ReadEvents : TellsTimeout(ReadEvents[i], entity))
                  => entity \notin DOMAIN listener.world

\* ------------------------------------------------------------------------
\* C16: whatever datagram arrives from the network, its processing ends in
\* a drop, an error result or an event: it never aborts the process. A
\* fragment whose index is beyond the fragments stored so far is one of the
\* inputs named.
\* ------------------------------------------------------------------------
C16_NoAbortOnInput == last.op = "Receive" => ~stream.panicked

\* ------------------------------------------------------------------------
\* C17: the MTU of every connection the server created is at most 1500 and
\* large enough for the payload of a fragment to be positive:
\* MTU - UDP_HEADER_SIZE - DATAGRAM_HEADER_SIZE - FRAME_HEADER_SIZE
\* - FRAME_ADDITIONAL_SIZE > 0, whatever client_mtu the request carried.
\* ------------------------------------------------------------------------
C17_NegotiatedMtuRange ==
    \A entity \in DOMAIN listener.world :
        /\ listener.world[entity].mtu_size <= 1500
        /\ listener.world[entity].mtu_size - UDP_HEADER_SIZE - DATAGRAM_HEADER_SIZE
               - FRAME_HEADER_SIZE - FRAME_ADDITIONAL_SIZE > 0

\* ========================================================================
\* SpecSplit: RakStream::encode on streams of several MTUs and messages of
\* the lengths around the sizes where the number of fragments changes
\* ========================================================================
SplitMtus == {576, 1400, 1500}

\* serialized lengths of the messages for a stream of MTU m
SplitLengths(m) ==
    {1, m - 52, m - 43, m - 42, m - 41, m - 38, m - 37,
     2 * (m - 52), 2 * (m - 52) + 1, 2 * (m - 48), 2 * (m - 48) + 1, 3 * (m - 52) + 1}

\* connection_tick on an OutgoingBatch event whose GamePacket takes len bytes
SplitEncode(len) ==
    /\ steps < MaxSplitSteps /\ ~stream.panicked
    /\ len \in SplitLengths(stream.mtu_size)
    /\ stream' = encode(stream, GamePacket(steps + 1, len - 1), "ReliableOrdered")
    /\ steps' = steps + 1
    /\ last' = Op("Encode", [kind |-> "message", len |-> len])
    /\ UNCHANGED <<spwVars, rwVars, swVars, mwVars, listenerVars, linkVars, tick, alive, receipted>>

\* the flush_batch system
SplitTryFlush ==
    /\ steps < MaxSplitSteps /\ ~stream.panicked
    /\ stream' = try_flush(stream)
    /\ steps' = steps + 1
    /\ last' = Op("TryFlush", NoDatagram)
    /\ UNCHANGED <<spwVars, rwVars, swVars, mwVars, listenerVars, linkVars, tick, alive, receipted>>

InitSplit ==
    /\ SpwIdle /\ RwIdle /\ SwIdle /\ MwIdle /\ LinkIdle /\ TimerIdle /\ ListenerIdle
    /\ \E m \in SplitMtus, c \in OverflowChecks : stream = RakStreamNew(m, c)
    /\ alive = TRUE /\ steps = 0 /\ last = NoOp /\ receipted = {}

NextSplit ==
    \/ \E len \in UNION {SplitLengths(m) : m \in SplitMtus} : SplitEncode(len)
    \/ SplitTryFlush

SpecSplit == InitSplit /\ [][NextSplit]_vars

\* the last operation encoded a message and came to its end
Encoded == last.op = "Encode" /\ ~stream.panicked

\* the frames the last encode wrote: each took one message index
FramesWritten == stream.message_index - last.before.message_index

\* the last frame written is still in the buffer
LastFrame == stream.buffer[Len(stream.buffer)]

Ceil(a, b) == (a + b - 1) \div b

RECURSIVE RunEnd(_, _)
RunEnd(set, x) == IF x + 1 \in set THEN RunEnd(set, x + 1) ELSE x

\* the records of the maximal runs of set
RunRecords(set) ==
    {IF RunEnd(set, x) = x THEN Record(1, x, x) ELSE Record(0, x, RunEnd(set, x)) :
        x \in {y \in set : y - 1 \notin set}}

RunLengthMinimal(kind, sequences) ==
    sequences # <<>> =>
        /\ Len(ReceiptsOf(kind)) = 1
        /\ Range(ReceiptsOf(kind)[1].records) = RunRecords(Range(sequences))
        /\ Len(ReceiptsOf(kind)[1].records) = Cardinality(RunRecords(Range(sequences)))
        /\ ReceiptsOf(kind)[1].count = Len(ReceiptsOf(kind)[1].records)

C19_RunLengthMinimal ==
    last.op = "FlushReceipts" =>
        /\ RunLengthMinimal("ack", last.before.sequence_window.acks)
        /\ RunLengthMinimal("nack", last.before.sequence_window.nacks)

\* ------------------------------------------------------------------------
\* SpecRtt: a RecoveryWindow under add, acknowledge, retransmit and rtt as
\* the clock moves. encode_datagram calls add, decode_ack acknowledge and
\* rtt, decode_nack retransmit and add (stream.rs).
\* ------------------------------------------------------------------------
RttSequences == {0, 1}

RttClockSteps == {500, 5000}

Called(op, sequence, result) ==
    [op |-> op, sequence |-> sequence, at |-> now, before |-> rw,
     result |-> result, calls |-> rwLast.calls + 1]

RttAdd(sequence) ==
    /\ rwLast.calls < MaxRttCalls
    /\ rw' = add(rw, sequence, <<>>, now)
    /\ rwLast' = Called("add", sequence, 0)
    /\ UNCHANGED <<spwVars, swVars, mwVars, streamVars, linkVars, tick, listener, now, ingress>>

RttAcknowledge(sequence) ==
    /\ rwLast.calls < MaxRttCalls
    /\ rw' = acknowledge(rw, sequence, now)
    /\ rwLast' = Called("acknowledge", sequence, 0)
    /\ UNCHANGED <<spwVars, swVars, mwVars, streamVars, linkVars, tick, listener, now, ingress>>

RttRetransmit(sequence) ==
    /\ rwLast.calls < MaxRttCalls
    /\ rw' = retransmit(rw, sequence, now)
    /\ rwLast' = Called("retransmit", sequence, 0)
    /\ UNCHANGED <<spwVars, swVars, mwVars, streamVars, linkVars, tick, listener, now, ingress>>

RttRtt ==
    /\ rwLast.calls < MaxRttCalls
    /\ rw' = rtt(rw, now).rw
    /\ rwLast' = Called("rtt", 0, rtt(rw, now).result)
    /\ UNCHANGED <<spwVars, swVars, mwVars, streamVars, linkVars, tick, listener, now, ingress>>

RttAdvance(ms) ==
    /\ now + ms <= MaxRttClock
    /\ now' = now + ms
    /\ UNCHANGED <<spwVars, rwVars, swVars, mwVars, streamVars, linkVars, tick, listener, ingress>>

InitRtt ==
    /\ SpwIdle /\ RwIdle /\ SwIdle /\ MwIdle /\ StreamIdle /\ LinkIdle /\ TimerIdle /\ ListenerIdle

NextRtt ==
    \/ \E sequence \in RttSequences : RttAdd(sequence)
    \/ \E sequence \in RttSequences : RttAcknowledge(sequence)
    \/ \E sequence \in RttSequences : RttRetransmit(sequence)
    \/ RttRtt
    \/ \E ms \in RttClockSteps : RttAdvance(ms)

SpecRtt == InitRtt /\ [][NextRtt]_vars

\* the samples of delays recorded no more than 5 seconds before t
RECURSIVE Recent(_, _)
Recent(delays, t) ==
    IF delays = <<>> THEN <<>>
    ELSE LET rest == Recent(Tail(delays), t)
         IN IF t - delays[1].time <= 5000 THEN <<delays[1]>> \o rest ELSE rest

\* mean is the arithmetic mean of the durations of delays, in whole units
IsMean(mean, delays) ==
    /\ mean * Len(delays) <= Total(delays)
    /\ Total(delays) < (mean + 1) * Len(delays)

\* the time since the send of the sequence the last call named
SinceSend == rwLast.at - rwLast.before.unacknowledged[rwLast.sequence].instant

\* ------------------------------------------------------------------------
\* C20: rtt discards every sample recorded more than 5 seconds ago and
\* returns the arithmetic mean of the remaining ones, zero when none
\* remains; acknowledge of a sent sequence records one sample of the time
\* since its send, retransmit one of twice that time.
\* ------------------------------------------------------------------------
C20_RttMean ==
    /\ rwLast.op = "rtt" =>
        /\ rw.delays = Recent(rwLast.before.delays, rwLast.at)
        /\ IF rw.delays = <<>> THEN rwLast.result = 0
           ELSE IsMean(rwLast.result, rw.delays)
    /\ (/\ rwLast.op = "acknowledge"
        /\ rwLast.sequence \in DOMAIN rwLast.before.unacknowledged) =>
        rw.delays = Append(rwLast.before.delays, Sample(rwLast.at, SinceSend))
    /\ (/\ rwLast.op = "retransmit"
        /\ rwLast.sequence \in DOMAIN rwLast.before.unacknowledged) =>
        rw.delays = Append(rwLast.before.delays, Sample(rwLast.at, SinceSend * 2))

\* ------------------------------------------------------------------------
\* Observations on the data datagram the last operation decoded
\* ------------------------------------------------------------------------
ReceivedData == last.op = "Receive" /\ last.dg.kind = "data"

\* the sequence window took the datagram's sequence number
SeqAccepted == SequenceWindowReceive(last.before.sequence_window, last.dg.seq).ok

NewlyHandled == SubSeq(stream.handled, Len(last.before.handled) + 1, Len(stream.handled))

Unreliables == {"Unreliable", "UnreliableSequenced"}

\* ------------------------------------------------------------------------
\* C21: a frame with Unreliable or UnreliableSequenced reliability is never
\* dropped as a duplicate and never changes the message window: a datagram
\* the sequence window takes whose frames are all unreliable and non-empty
\* has every frame handled and leaves the message window as it was.
\* ------------------------------------------------------------------------
C21_UnreliableNotGated ==
    (/\ ReceivedData /\ SeqAccepted
     /\ \A k \in DOMAIN last.dg.frames :
           /\ last.dg.frames[k].rel \in Unreliables
           /\ BLen(last.dg.frames[k].content) # 0) =>
        /\ stream.message_window = last.before.message_window
        /\ NewlyHandled = last.dg.frames

\* ------------------------------------------------------------------------
\* SpecSplitWindow: a SplitWindow for a split of N fragments under receive
\* calls in any order of the indices, as DecodeSplit makes them: the window
\* is dropped once receive returned the joined bytes
\* ------------------------------------------------------------------------
\* the message the fragments are cut from: count fragments of 10 bytes
SpwMessage(count) == GamePacket(30, count * 10 - 1)

SpwFragment(count, index) ==
    Slice(SpwMessage(count), index * 10, (index + 1) * 10)

SpwOpen ==
    \A i \in DOMAIN spwLog : spwLog[i].status = "none"

SpwReceive(index) ==
    /\ Len(spwLog) < MaxSpwCalls
    /\ SpwOpen
    /\ index < spw.count
    /\ LET r == SplitWindowReceive(spw, index, SpwFragment(spw.count, index))
       IN /\ spw' = r.w
          /\ spwLog' = Append(spwLog, [index |-> index, status |-> r.status,
                                       bytes |-> r.bytes])
    /\ UNCHANGED <<rwVars, swVars, mwVars, streamVars, linkVars, tick, listenerVars>>

InitSplitWindow ==
    /\ RwIdle /\ SwIdle /\ MwIdle /\ StreamIdle /\ LinkIdle /\ TimerIdle /\ ListenerIdle
    /\ \E count \in 2..MaxSplitCount : spw = SplitWindowNew(count)
    /\ spwLog = <<>>

NextSplitWindow == \E index \in 0..(MaxSplitCount - 1) : SpwReceive(index)

SpecSplitWindow == InitSplitWindow /\ [][NextSplitWindow]_vars

\* the distinct indices the first n calls gave
SpwDistinct(n) == {spwLog[i].index : i \in 1..n}

\* ------------------------------------------------------------------------
\* C22: SplitWindow.receive for a split of N fragments returns none until N
\* distinct indices have been received, in any arrival order, and on the
\* N-th distinct index returns the fragment bodies joined in ascending
\* index order.
\* ------------------------------------------------------------------------
C22_SplitReassembly ==
    \A n \in DOMAIN spwLog :
        IF Cardinality(SpwDistinct(n)) < spw.count
        THEN spwLog[n].status = "none"
        ELSE /\ spwLog[n].status = "some"
             /\ spwLog[n].bytes = Serialize(SpwMessage(spw.count))

\* ------------------------------------------------------------------------
\* Observations on the last receive call of SpecSW
\* ------------------------------------------------------------------------
\* a step that made a receive call on sw
SwReceived == Len(swLog') = Len(swLog) + 1

SwLastCall == swLog'[Len(swLog')]

\* ------------------------------------------------------------------------
\* C23: SequenceWindow.receive(seq) returns false and changes nothing when
\* seq < start, seq >= end or seq is already in acks; otherwise it returns
\* true, adds seq to acks, removes it from nacks and raises highest to at
\* least seq.
\* ------------------------------------------------------------------------
C23_ReceiveGate ==
    [][SwReceived =>
         IF \/ SwLastCall.seq < sw.start
            \/ SwLastCall.seq >= sw.end
            \/ Contains(sw.acks, SwLastCall.seq)
         THEN ~SwLastCall.ok /\ sw' = sw
         ELSE /\ SwLastCall.ok
              /\ Contains(sw'.acks, SwLastCall.seq)
              /\ ~Contains(sw'.nacks, SwLastCall.seq)
              /\ sw'.highest >= SwLastCall.seq]_vars

\* every integer of [start, highest] of window w is in acks or in nacks
Covered(w) ==
    w.start <= w.highest =>
        Cardinality((Range(w.acks) \cup Range(w.nacks)) \cap (w.start..w.highest))
            = w.highest - w.start + 1

\* ------------------------------------------------------------------------
\* C24: in every state a SequenceWindow reaches from the fresh window under
\* receive calls and ack-flushes, except the fresh window itself (nothing
\* accepted and nothing flushed yet, where highest is 0 without 0 having
\* been received), every integer in [start, highest] is in acks or in nacks.
\* ------------------------------------------------------------------------
C24_RangeCovered == sw # SequenceWindowNew => Covered(sw)

\* a gap below the highest number stands among the nacks after a flush and
\* two receive calls, the later one filling part of the gap
C24_Witness ==
    /\ swShifts > 0
    /\ sw.start < sw.highest
    /\ sw.nacks # <<>>
    /\ sw.highest - sw.start < WINDOW_SIZE - 1
    /\ \E i \in sw.start..sw.highest : ~Contains(sw.acks, i)
    /\ \E i \in sw.start..sw.highest : i < sw.highest /\ Contains(sw.acks, i)

\* C24 as stated: the statement for every reachable state, the fresh window
\* included
C24_RangeCoveredAsStated == Covered(sw)

\* the sequence window rejected the data datagram the last operation decoded
SeqRejected == ReceivedData /\ ~SeqAccepted

\* the rejected datagram left the stream as it was but for its events:
\* nothing handled, the four windows unchanged, nothing sent, and decode
\* returned Ok, so that the caller counts no invalid packet
DroppedWhole ==
    /\ decode(last.before, last.dg).ok
    /\ stream.handled = last.before.handled
    /\ stream.sequence_window = last.before.sequence_window
    /\ stream.message_window = last.before.message_window
    /\ stream.split_window = last.before.split_window
    /\ stream.recovery_window = last.before.recovery_window
    /\ stream.sent = last.before.sent

\* ------------------------------------------------------------------------
\* C25: a data datagram whose sequence number the sequence window rejects
\* is dropped: decode returns success, none of its frames is handled, the
\* sequence, message, split and recovery windows are unchanged, no invalid
\* packet is counted and no event is emitted other than the LastActivity
\* event decode sends for every datagram with the DATAGRAM bit.
\* ------------------------------------------------------------------------
C25_RejectedDropped ==
    SeqRejected =>
        /\ DroppedWhole
        /\ stream.events = Append(last.before.events, Event("LastActivity", <<>>))

\* a datagram with frames comes under a sequence number already in acks
C25_Witness ==
    /\ SeqRejected
    /\ Contains(last.before.sequence_window.acks, last.dg.seq)
    /\ last.dg.frames # <<>>

\* C25 as stated: the rejected datagram emits no event at all
C25_RejectedDroppedAsStated ==
    SeqRejected => DroppedWhole /\ stream.events = last.before.events

\* the bytes of data datagram d on the wire with the UDP/IP overhead
WireSize(d) == UDP_HEADER_SIZE + DATAGRAM_HEADER_SIZE + FramesSize(d.frames)

\* ------------------------------------------------------------------------
\* C26: every data datagram a connection sends, with its 4-byte header and
\* the 28 bytes of UDP/IP overhead, does not exceed the negotiated MTU.
\* ------------------------------------------------------------------------
C26_DatagramWithinMtu ==
    \A i \in DOMAIN stream.sent :
        stream.sent[i].kind = "data" => WireSize(stream.sent[i]) <= stream.mtu_size

\* ------------------------------------------------------------------------
\* Observations on the frames a stream wrote, in the order it wrote them
\* ------------------------------------------------------------------------
RECURSIVE FramesOf(_)
\* the frames of the data datagrams of sent, in order
FramesOf(sent) ==
    IF sent = <<>> THEN <<>>
    ELSE (IF sent[1].kind = "data" THEN sent[1].frames ELSE <<>>) \o FramesOf(Tail(sent))

\* the frames st wrote so far: those flushed and those still in the buffer
Written(st) == FramesOf(st.sent) \o st.buffer

\* the frames the last operation wrote
NewFrames == SubSeq(Written(stream), Len(Written(last.before)) + 1, Len(Written(stream)))

RECURSIVE JoinContents(_)
JoinContents(fs) ==
    IF fs = <<>> THEN <<>> ELSE Concat(fs[1].content, JoinContents(Tail(fs)))

\* the message the last SplitEncode encoded
SplitMessage == GamePacket(steps, last.dg.len - 1)

FlushTick == tick' # tick

\* no data datagram st sent carries sequence number seq
UnusedSequence(st, seq) ==
    \A i \in DOMAIN st.sent : st.sent[i].kind = "data" => st.sent[i].seq # seq

\* the tick sent the whole buffer as one datagram under a new sequence number
BufferSent ==
    /\ stream'.sent = Append(stream.sent,
                             Datagram(stream.sequence_number, stream.buffer, "try_flush"))
    /\ UnusedSequence(stream, stream.sequence_number)
    /\ stream'.sequence_number = stream.sequence_number + 1
    /\ stream'.buffer = <<>>

\* the tick sent nothing
NothingSent ==
    /\ stream'.sent = stream.sent
    /\ stream'.sequence_number = stream.sequence_number
    /\ stream'.buffer = <<>>

\* ------------------------------------------------------------------------
\* C28: at each datagram-flush tick a connection with a non-empty outgoing
\* buffer sends that buffer as one datagram under a new sequence number and
\* ends with an empty buffer, a connection with an empty buffer sends
\* nothing and keeps its sequence number; hence the frames of a message
\* encoded with ReliableOrdered that wait in the buffer are transmitted by
\* the next tick, which always comes.
\* ------------------------------------------------------------------------
C28_FlushTick ==
    /\ [][FlushTick => IF stream.buffer # <<>> THEN BufferSent ELSE NothingSent]_vars
    /\ (stream.buffer # <<>>) ~> (stream.buffer = <<>>)

\* a tick sent a buffer of two batched messages as the second datagram
C28_Witness ==
    /\ stream.buffer = <<>>
    /\ Len(stream.sent) = 2
    /\ stream.sent[2].via = "try_flush"
    /\ Len(stream.sent[2].frames) = 2

\* the source of the datagram the server read last had a connection whose
\* RakStream exists
FromConnected ==
    /\ ingress.addr \in DOMAIN ingress.before.connections
    /\ ingress.before.connections[ingress.addr] \in DOMAIN ingress.before.world

\* ------------------------------------------------------------------------
\* C29: a datagram whose source is in the connection table is always handed
\* to the RakStream.decode of its connection, and the packets-per-second
\* limit and its blocks leave such a source alone: it is not counted and not
\* blocked.
\* ------------------------------------------------------------------------
C29_ConnectedNotLimited ==
    FromConnected =>
        /\ ingress.route = "connected"
        /\ listener.packets_per_sec = ingress.before.packets_per_sec
        /\ listener.blocked = ingress.before.blocked

\* ------------------------------------------------------------------------
\* SpecGate: a RakStream under data datagrams that each hold one fragmented
\* Reliable frame. Every datagram comes under the next sequence number and
\* the next message index, so that both windows take it and the frame
\* reaches the split arm of decode_datagram.
\* ------------------------------------------------------------------------
GateSplitCounts == {2, 3, MAX_SPLIT_PACKETS - 1, MAX_SPLIT_PACKETS, MAX_SPLIT_PACKETS + 1}

GateSplitIds == {0, 1}

GateSplitIndexes == {0, 1}

GateMessage == GamePacket(40, 99)

GateFrame(index, scount, sid, sindex) ==
    Frame("Reliable", index, 0, 0, TRUE, scount, sid, sindex,
          Slice(GateMessage, sindex * 10, sindex * 10 + 10))

\* client_read_udp / handle_connected_message: one datagram is decoded
GateReceive(scount, sid, sindex) ==
    /\ steps < MaxGateSteps /\ ~stream.panicked
    /\ stream' = decode(stream, Datagram(steps, <<GateFrame(steps, scount, sid, sindex)>>,
                                         "peer")).st
    /\ steps' = steps + 1
    /\ last' = Op("Receive", Datagram(steps, <<GateFrame(steps, scount, sid, sindex)>>, "peer"))
    /\ UNCHANGED <<spwVars, rwVars, swVars, mwVars, listenerVars, linkVars, tick, alive, receipted>>

InitGate ==
    /\ SpwIdle /\ RwIdle /\ SwIdle /\ MwIdle /\ StreamIdle /\ LinkIdle /\ TimerIdle
    /\ ListenerIdle

NextGate ==
    \E scount \in GateSplitCounts, sid \in GateSplitIds, sindex \in GateSplitIndexes :
        GateReceive(scount, sid, sindex)

SpecGate == InitGate /\ [][NextGate]_vars

\* the fragmented frame of the datagram decoded last
GateLast == last.dg.frames[1]

\* the split id of the frame has a window whose count differs from the
\* frame's
CountMismatch ==
    /\ GateLast.sid \in DOMAIN last.before.split_window
    /\ last.before.split_window[GateLast.sid].count # GateLast.scount

\* decode returned the protocol error: nothing went into a split window
GateError ==
    /\ ~decode(last.before, last.dg).ok
    /\ ~stream.panicked
    /\ \A sid \in DOMAIN stream.split_window :
          /\ sid \in DOMAIN last.before.split_window
          /\ stream.split_window[sid] = last.before.split_window[sid]

\* what SplitWindow.receive gives for the frame on the window of its id
GateFeed ==
    SplitWindowReceive(IF GateLast.sid \in DOMAIN last.before.split_window
                       THEN last.before.split_window[GateLast.sid]
                       ELSE SplitWindowNew(GateLast.scount),
                       GateLast.sindex, GateLast.content)

\* the frame went into the split window of its id
GateFed ==
    CASE GateFeed.status = "none" ->
            /\ GateLast.sid \in DOMAIN stream.split_window
            /\ stream.split_window[GateLast.sid] = GateFeed.w
            /\ decode(last.before, last.dg).ok
      [] GateFeed.status = "some" -> GateLast.sid \notin DOMAIN stream.split_window
      [] OTHER -> stream.panicked

\* ------------------------------------------------------------------------
\* C30: decode fails with a protocol error for a fragmented frame exactly
\* when its split count exceeds MAX_SPLIT_PACKETS or differs from the count
\* stored for its split id; a frame whose split count is at most
\* MAX_SPLIT_PACKETS and consistent with the stored count is fed to the
\* split window.
\* ------------------------------------------------------------------------
C30_SplitCountGate ==
    last.op = "Receive" =>
        IF GateLast.scount > MAX_SPLIT_PACKETS \/ CountMismatch
        THEN GateError
        ELSE GateFed

\* ------------------------------------------------------------------------
\* SpecBatch: a RakStream under data datagrams that batch many small
\* frames, all Reliable with the message indexes the message window expects
\* next, or all Unreliable. A datagram of 102 Reliable frames takes 1024
\* bytes, so every one of them fits in a UDP datagram of MAX_MTU_SIZE.
\* ------------------------------------------------------------------------
BatchCounts ==
    {1, 2, MAX_BATCHED_PACKETS - 1, MAX_BATCHED_PACKETS, MAX_BATCHED_PACKETS + 1,
     MAX_BATCHED_PACKETS + 2}

BatchReliabilities == {"Reliable", "Unreliable"}

BatchFrame(rel, index) ==
    Frame(rel, index, 0, 0, FALSE, 0, 0, 0, Serialize(GamePacket(50, 3)))

BatchFrames(rel, base, n) == [i \in 1..n |-> BatchFrame(rel, base + i - 1)]

\* a datagram of n frames under the next sequence number
BatchDatagram(rel, n) ==
    Datagram(steps, BatchFrames(rel, stream.message_window.start, n), "peer")

\* client_read_udp / handle_connected_message: one datagram is decoded
BatchReceive(rel, n) ==
    /\ steps < MaxBatchSteps /\ ~stream.panicked
    /\ stream' = decode(stream, BatchDatagram(rel, n)).st
    /\ steps' = steps + 1
    /\ last' = Op("Receive", BatchDatagram(rel, n))
    /\ UNCHANGED <<spwVars, rwVars, swVars, mwVars, listenerVars, linkVars, tick, alive, receipted>>

InitBatch ==
    /\ SpwIdle /\ RwIdle /\ SwIdle /\ MwIdle /\ StreamIdle /\ LinkIdle /\ TimerIdle
    /\ ListenerIdle

NextBatch == \E rel \in BatchReliabilities, n \in BatchCounts : BatchReceive(rel, n)

SpecBatch == InitBatch /\ [][NextBatch]_vars

\* ------------------------------------------------------------------------
\* C31: decoding one datagram passes at most MAX_BATCHED_PACKETS of its
\* frames to message handling, and a datagram that carries more than
\* MAX_BATCHED_PACKETS frames ends in a protocol error.
\* ------------------------------------------------------------------------
C31_BatchCap ==
    ReceivedData =>
        /\ Len(NewlyHandled) <= MAX_BATCHED_PACKETS
        /\ Len(last.dg.frames) > MAX_BATCHED_PACKETS => ~decode(last.before, last.dg).ok

\* ========================================================================
\* SpecProbe: the server under OpenConnectionRequest1 datagrams: the MTU
\* probes RakSocket::connect builds, and requests of other lengths and
\* protocols
\* ========================================================================
\* the bytes of an OpenConnectionRequest1 with size bytes of padding: the
\* id, the magic, the protocol and the padding, which has no length prefix
OpenConnectionRequest1Len(size) == 1 + 16 + 1 + size

\* RakSocket::connect: the OpenConnectionRequest1 written in a turn of the
\* discovery loop in which mtu_size is the MTU tried
connect(mtu_size) ==
    Unconnected("OpenConnectionRequest1", PROTOCOL_VERSION,
                OpenConnectionRequest1Len(mtu_size - UDP_HEADER_SIZE - 16 - 1 - 1), 0, TRUE)

\* the MTUs the discovery loop tries: MAX_MTU_SIZE first, smaller ones after
\* replies that did not come
ProbeMtus == {46, 576, 1400, MAX_MTU_SIZE - 1, MAX_MTU_SIZE}

\* the lengths of the requests of other clients: no padding, and what fills
\* the read buffer of MAX_MTU_SIZE bytes or comes near it
RequestLens == {18, MAX_MTU_SIZE - UDP_HEADER_SIZE + 1, MAX_MTU_SIZE}

\* a client at addr runs the discovery loop with mtu_size and the server
\* reads its request
ConnectProbe(addr, mtu_size) ==
    /\ steps < MaxProbeSteps
    /\ listener' = server_read_udp(listener, addr, connect(mtu_size), now).ls
    /\ ingress' = [addr |-> addr, dg |-> connect(mtu_size),
                   route |-> server_read_udp(listener, addr, connect(mtu_size), now).route,
                   before |-> listener]
    /\ steps' = steps + 1
    /\ UNCHANGED <<spwVars, rwVars, swVars, mwVars, linkVars, tick, stream, alive, last, receipted, now>>

\* the server reads an OpenConnectionRequest1 of len bytes
ReadRequest1(addr, len, protocol) ==
    /\ steps < MaxProbeSteps
    /\ listener' = server_read_udp(listener, addr,
                                   Unconnected("OpenConnectionRequest1", protocol, len, 0, TRUE),
                                   now).ls
    /\ ingress' = [addr |-> addr,
                   dg |-> Unconnected("OpenConnectionRequest1", protocol, len, 0, TRUE),
                   route |-> server_read_udp(listener, addr,
                                 Unconnected("OpenConnectionRequest1", protocol, len, 0, TRUE),
                                 now).route,
                   before |-> listener]
    /\ steps' = steps + 1
    /\ UNCHANGED <<spwVars, rwVars, swVars, mwVars, linkVars, tick, stream, alive, last, receipted, now>>

InitProbe ==
    /\ SpwIdle /\ RwIdle /\ SwIdle /\ MwIdle /\ StreamIdle /\ LinkIdle /\ TimerIdle
    /\ listener \in ListenerStarts
    /\ now = 0 /\ ingress = NoIngress

NextProbe ==
    \/ \E addr \in Addrs, mtu_size \in ProbeMtus : ConnectProbe(addr, mtu_size)
    \/ \E addr \in Addrs, len \in RequestLens,
          protocol \in {PROTOCOL_VERSION - 1, PROTOCOL_VERSION} :
          ReadRequest1(addr, len, protocol)

SpecProbe == InitProbe /\ [][NextProbe]_vars

\* the last datagram was an OpenConnectionRequest1 with the supported
\* protocol that the handshake handled
SupportedRequest1 ==
    /\ ingress.route = "unconnected"
    /\ ingress.dg.id = "OpenConnectionRequest1"
    /\ ingress.dg.protocol = PROTOCOL_VERSION

\* the messages the server wrote for the last datagram
Replies == SubSeq(listener.wire, Len(ingress.before.wire) + 1, Len(listener.wire))

\* ------------------------------------------------------------------------
\* C32: an OpenConnectionRequest1 with the supported protocol is answered
\* with one OpenConnectionReply1 whose server_mtu is the length of the
\* packet plus UDP_HEADER_SIZE, or MAX_MTU_SIZE if that is less; the probe
\* a client builds for an MTU m of at most MAX_MTU_SIZE has m - 28 bytes and
\* is answered with server_mtu = m.
\* ------------------------------------------------------------------------
C32_ServerMtu ==
    SupportedRequest1 =>
        /\ Len(Replies) = 1
        /\ Replies[1].id = "OpenConnectionReply1"
        /\ Replies[1].to = ingress.addr
        /\ Replies[1].mtu = IF ingress.dg.len + UDP_HEADER_SIZE > MAX_MTU_SIZE
                            THEN MAX_MTU_SIZE
                            ELSE ingress.dg.len + UDP_HEADER_SIZE
        /\ \A m \in ProbeMtus :
              ingress.dg = connect(m) => ingress.dg.len = m - 28 /\ Replies[1].mtu = m

\* a probe for an MTU below MAX_MTU_SIZE was answered, and so was a request
\* that fills the read buffer
C32_Witness ==
    /\ SupportedRequest1
    /\ \/ ingress.dg = connect(576) /\ Replies[1].mtu = 576
       \/ ingress.dg.len = MAX_MTU_SIZE /\ Replies[1].mtu = MAX_MTU_SIZE

\* ------------------------------------------------------------------------
\* Observations on the receive calls made on the SequenceWindow
\* ------------------------------------------------------------------------
\* the calls so far brought the sequence numbers 0, 1, 2, ... in order, each
\* once
InOrder(log) == \A i \in DOMAIN log : log[i].seq = i - 1

\* ------------------------------------------------------------------------
\* C33: when the sequence numbers 0, 1, 2, ... arrive in order, each once,
\* every one of them is accepted by the sequence window, whatever ack-flushes
\* (shift) come in between.
\* ------------------------------------------------------------------------
C33_InOrderAccepted == InOrder(swLog) => \A i \in DOMAIN swLog : swLog[i].ok

\* ------------------------------------------------------------------------
\* C34: SequenceWindow.receive returns true at most once for a sequence
\* number, also when an ack-flush cleared the acks between the two calls.
\* ------------------------------------------------------------------------
C34_AcceptedOnce ==
    \A i, j \in DOMAIN swLog :
        (i < j /\ swLog[i].seq = swLog[j].seq /\ swLog[i].ok) => ~swLog[j].ok

\* a sequence number that did not move the start of the window was
\* accepted, an ack-flush cleared the acks, and the number came again
C34_Witness ==
    \E i, j \in DOMAIN swLog :
        /\ i < j /\ swLog[i].seq = swLog[j].seq /\ swLog[i].ok
        /\ swLog[i].seq > 0 /\ swLog[i].shifts = 0 /\ swLog[j].shifts > 0
        /\ (j = Len(swLog) => ~Contains(sw.acks, swLog[j].seq))

\* the data datagrams the stream gave to the socket, in send order
DataSent(st) == SelectSeq(st.sent, LAMBDA d : d.kind = "data")

\* ------------------------------------------------------------------------
\* C35: the data datagrams a connection sends carry the sequence numbers
\* 0, 1, 2, ... in send order, each on one datagram, whichever path sent
\* them: a flush inside encode, try_flush, a retransmission on a NACK or
\* disconnect.
\* ------------------------------------------------------------------------
C35_SequenceNumbers ==
    \A i \in DOMAIN DataSent(stream) : DataSent(stream)[i].seq = i - 1

\* a datagram flushed inside encode was retransmitted on a NACK under the
\* next sequence number
C35_Witness ==
    /\ Len(DataSent(stream)) >= 2
    /\ DataSent(stream)[1].via = "encode"
    /\ DataSent(stream)[2].via = "nack"
    /\ DataSent(stream)[2].frames = DataSent(stream)[1].frames

\* ========================================================================
\* SpecReceipts: a RakStream that answers the ConnectedPings of its peer,
\* each ConnectedPong flushed inside encode and kept in the recovery window,
\* under the ACK and NACK receipts of the peer: single records, a range, a
\* receipt with a record of unknown type after a valid one, and a receipt
\* whose count asks for one record more than it holds
\* ========================================================================
ReceiptRecordLists == {<<Record(1, 0, 0)>>, <<Record(1, 1, 1)>>, <<Record(0, 0, 2)>>}

ReceiptDatagrams ==
    {[kind |-> k, records |-> rs, count |-> Len(rs)] :
        k \in {"ack", "nack"}, rs \in ReceiptRecordLists}
        \cup {[kind |-> k, records |-> <<Record(1, 0, 0), Record(2, 0, 0)>>, count |-> 2] :
                 k \in {"ack", "nack"}}
        \cup {[kind |-> k, records |-> <<Record(1, 0, 0)>>, count |-> 2] :
                 k \in {"ack", "nack"}}

\* the next data datagram of the peer: a ConnectedPing in a Reliable frame,
\* under the sequence number and the message index the windows expect
ReceiptPingDatagram ==
    Datagram(stream.sequence_window.start,
             <<Frame("Reliable", stream.message_window.start, 0, 0, FALSE, 0, 0, 0,
                     Serialize(Control("ConnectedPing", 1)))>>,
             "peer")

\* client_read_udp / handle_connected_message: the ping is decoded and
\* handle_message encodes the ConnectedPong
ReceiptPing ==
    /\ steps < MaxReceiptSteps
    /\ stream' = decode(stream, ReceiptPingDatagram).st
    /\ steps' = steps + 1
    /\ last' = Op("Receive", ReceiptPingDatagram)
    /\ UNCHANGED <<spwVars, rwVars, swVars, mwVars, listenerVars, linkVars, tick, alive, receipted>>

\* client_read_udp / handle_connected_message: one receipt is decoded
ReceiptReceive(dg) ==
    /\ steps < MaxReceiptSteps
    /\ stream' = decode(stream, dg).st
    /\ steps' = steps + 1
    /\ last' = Op("Receive", dg)
    /\ receipted' = receipted \cup Named(dg.records)
    /\ UNCHANGED <<spwVars, rwVars, swVars, mwVars, listenerVars, linkVars, tick, alive>>

InitReceipts ==
    /\ SpwIdle /\ RwIdle /\ SwIdle /\ MwIdle /\ StreamIdle /\ LinkIdle /\ TimerIdle
    /\ ListenerIdle

NextReceipts == ReceiptPing \/ \E dg \in ReceiptDatagrams : ReceiptReceive(dg)

SpecReceipts == InitReceipts /\ [][NextReceipts]_vars

\* the last operation decoded a receipt
ReceivedReceipt == last.op = "Receive" /\ last.dg.kind \in {"ack", "nack"}

\* the receipt decoded last is read to its end
Parsed == decode(last.before, last.dg).ok

\* the sequence numbers the receipt names that had a record in the recovery
\* window when it came
Live == Named(last.dg.records) \cap DOMAIN last.before.recovery_window.unacknowledged

\* ------------------------------------------------------------------------
\* C36: a receipt retransmits only sequence numbers it names that are in
\* the recovery window: a number that was acknowledged or retransmitted
\* before has no record, so a NACK naming it sends no datagram and takes no
\* sequence number, and an ACK or NACK none of whose numbers is in the
\* recovery window leaves the window and the sequence counter as they were.
\* ------------------------------------------------------------------------
C36_NoRepeat ==
    (ReceivedReceipt /\ Parsed) =>
        /\ Len(NewlySent) <= Cardinality(Live)
        /\ stream.sequence_number = last.before.sequence_number + Len(NewlySent)
        /\ Live = {} =>
              /\ stream.recovery_window = last.before.recovery_window
              /\ stream.sequence_number = last.before.sequence_number

\* ------------------------------------------------------------------------
\* C38: a receipt whose parsing fails part-way (a record of unknown type, or
\* a count past the last record) has no effect on the connection: no record
\* of the recovery window is acknowledged or retransmitted, and none of its
\* sequence numbers stays pending for a later receipt.
\* ------------------------------------------------------------------------
C38_FailedReceipt ==
    (ReceivedReceipt /\ ~Parsed) =>
        /\ stream.recovery_window = last.before.recovery_window
        /\ stream.sequence_number = last.before.sequence_number
        /\ NewlySent = <<>>
        /\ stream.receipts = last.before.receipts

\* ========================================================================
\* SpecTrip: two RakStreams. stream receives data datagrams of peer in any
\* order, with losses; its flush_receipts writes the ACK and the NACK, which
\* the network gives back to peer.
\* ========================================================================
\* the data datagram of peer with sequence number seq: one ReliableOrdered
\* GamePacket
TripDatagram(seq) ==
    Datagram(seq, <<Frame("ReliableOrdered", seq, 0, seq, FALSE, 0, 0, 0,
                          Serialize(GamePacket(70 + seq, 20)))>>, "peer")

\* client_read_udp / handle_connected_message at stream
TripReceive(seq) ==
    /\ steps < MaxTripSteps
    /\ stream' = decode(stream, TripDatagram(seq)).st
    /\ steps' = steps + 1
    /\ last' = Op("Receive", TripDatagram(seq))
    /\ UNCHANGED <<spwVars, rwVars, swVars, mwVars, listenerVars, linkVars, tick, alive, receipted>>

\* the flush_receipts system at stream
TripFlushReceipts ==
    /\ steps < MaxTripSteps
    /\ stream' = flush_receipts(stream)
    /\ steps' = steps + 1
    /\ last' = Op("FlushReceipts", NoDatagram)
    /\ UNCHANGED <<spwVars, rwVars, swVars, mwVars, listenerVars, linkVars, tick, alive, receipted>>

\* the network gives receipt j of stream to peer: client_read_udp /
\* handle_connected_message at peer
TripReturn(j) ==
    /\ j \in DOMAIN stream.sent /\ j \notin toPeer
    /\ stream.sent[j].kind \in {"ack", "nack"}
    /\ peer' = decode(peer, stream.sent[j]).st
    /\ toPeer' = toPeer \cup {j}
    /\ UNCHANGED <<spwVars, rwVars, swVars, mwVars, listenerVars, streamVars, script, toStream, tick>>

InitTrip ==
    /\ SpwIdle /\ RwIdle /\ SwIdle /\ MwIdle /\ StreamIdle /\ LinkIdle /\ TimerIdle
    /\ ListenerIdle

NextTrip ==
    \/ \E seq \in 0..MaxTripSeq : TripReceive(seq)
    \/ TripFlushReceipts
    \/ \E j \in 1..(2 * MaxTripSteps) : TripReturn(j)

SpecTrip == InitTrip /\ [][NextTrip]_vars

\* what read_receipts of a fresh stream parses from receipt d
ReadBack(d) == read_receipts(<<>>, d.records, d.count)

\* the list write_receipts wrote receipt d for in the last operation
WrittenFor(d) ==
    IF d.kind = "ack" THEN last.before.sequence_window.acks
    ELSE last.before.sequence_window.nacks

\* ------------------------------------------------------------------------
\* C37: the sequence numbers read_receipts parses from the receipt that
\* write_receipts wrote for a non-empty set S of distinct sequence numbers
\* are exactly the members of S.
\* ------------------------------------------------------------------------
C37_ReceiptRoundTrip ==
    last.op = "FlushReceipts" =>
        \A k \in DOMAIN NewlySent :
            /\ ReadBack(NewlySent[k]).ok
            /\ Range(ReadBack(NewlySent[k]).receipts) = Range(WrittenFor(NewlySent[k]))

\* ------------------------------------------------------------------------
\* C39: a connection is created for a source only if that source earlier
\* sent an OpenConnectionRequest1 with the supported protocol version that
\* was answered with OpenConnectionReply1; an OpenConnectionRequest2 from a
\* source with no such accepted request (none sent, or one rejected as
\* incompatible) creates no connection.
\* ------------------------------------------------------------------------
\* the server has answered a request of addr with OpenConnectionReply1
Request1Accepted(ls, addr) ==
    \E i \in DOMAIN ls.wire :
        ls.wire[i].to = addr /\ ls.wire[i].id = "OpenConnectionReply1"

\* the server has answered a request of addr with IncompatibleProtocolVersion
Request1Rejected(ls, addr) ==
    \E i \in DOMAIN ls.wire :
        ls.wire[i].to = addr /\ ls.wire[i].id = "IncompatibleProtocolVersion"

C39_ConnectionAfterRequest1 ==
    \A addr \in DOMAIN listener.connections : Request1Accepted(listener, addr)

\* ------------------------------------------------------------------------
\* C40: after a connection has been destroyed on a Disconnect event the
\* connection table no longer maps its remote address to it: every address
\* in the connection table maps to a live connection, and no datagram is
\* swallowed because its source is mapped to a connection that is gone.
\* ------------------------------------------------------------------------
C40_TableAfterDisconnect ==
    /\ \A addr \in DOMAIN listener.connections :
           listener.connections[addr] \in DOMAIN listener.world
    /\ ingress.route # "stale"

====
